---- MODULE Spec2Model ----
(***************************************************************************)
(* Model of the two stateful components of the telescope camera server:    *)
(*                                                                         *)
(*   - the MediaMTX process supervisor of the server entry point           *)
(*     (src/unnamed/part_000): startMediaMTX, scheduleRestart,             *)
(*     stopMediaMTX, the exit/error handlers and the stability timer;      *)
(*   - the CaptureService class (src/scripts/install.sh, lines 171-530):   *)
(*     startRecording, stopRecording and the process handlers they         *)
(*     register, getRecordingStatus, capturePhoto, listCaptures and        *)
(*     deleteCapture.                                                      *)
(*                                                                         *)
(* Node.js runs every callback to completion on one thread, so one action  *)
(* of the model is one callback (or the synchronous part of an async       *)
(* function between two awaits).                                           *)
(*                                                                         *)
(* Time.  The supervisor reads the clock (Date.now()) and arms timers.     *)
(* The code only ever subtracts two clock readings and tests a reading     *)
(* for truthiness, so the model keeps every stored time relative to the    *)
(* present: the clock always reads Now, and when d ms pass every stored    *)
(* timestamp and timer deadline moves d ms into the past (Elapse).  A      *)
(* timer fires when its deadline reaches Now, timers fire in deadline      *)
(* order, and a timestamp older than resetAfter is kept at resetAfter      *)
(* (the only comparison made of it is >= resetAfter).                      *)
(*                                                                         *)
(* Specifications: SupervisorSpec (the supervisor), CaptureSpec            *)
(* (startRecording, stopRecording, getRecordingStatus), PhotoSpec (the     *)
(* same with capturePhoto, over fewer calls) and GallerySpec               *)
(* (listCaptures, deleteCapture over the stored files).  Each leaves the   *)
(* variables of the other parts unchanged.                                 *)
(***************************************************************************)
EXTENDS Integers, Sequences, FiniteSets, TLC

VARIABLES
  \* ---- supervisor (src/unnamed/part_000) ----
  booted,           \* the server.listen callback has run       (line 158-178)
  restartState,     \* [count, delay, lastStableTime]            (line 21-25)
  mediamtxProcess,  \* Null or <<pid>>: the handle                (line 64)
  procs,            \* pid -> [status, signalled]: the MediaMTX processes
                    \* spawned so far
  timers,           \* pending setTimeout callbacks of the supervisor
  sent,             \* what the last callback passed to broadcast(), in order
  wasReset,         \* Null, or <<count, delay>> when the last callback
                    \* called resetRestartState() on that RestartState
  failures,         \* number of permanent-failure events broadcast so far
  spawnFailures,    \* number of spawns that failed so far
  stops,            \* number of stopMediaMTX() calls so far
  run,              \* history: delays of the restarts scheduled since
                    \* RestartState was last fresh or reset
  stopped,          \* history: stopMediaMTX() was called and startMediaMTX()
                    \* has not been called explicitly since
  revived,          \* history: a process was spawned while stopped
  \* ---- CaptureService (src/scripts/install.sh) ----
  recordingProcess,   \* this.recordingProcess: Null or <<pid>>   (line 189)
  isRecording,        \* this.isRecording                         (line 190)
  currentVideoFile,   \* this.currentVideoFile: Null or <<path>>  (line 191)
  recordingStartTime, \* this.recordingStartTime: Null or <<t>>   (line 192)
  cprocs,             \* pid -> the capture (ffmpeg) processes spawned so far
  calls,              \* the calls of startRecording, stopRecording and
                      \* capturePhoto: where each one stands, and how it
                      \* settled in the last step
  files,              \* the disk: the paths of the nonempty files
  stamp,              \* the clock reading, in seconds, that generateFilename
                      \* last used
  status,             \* Null, or <<r>> when the last step was a call of
                      \* getRecordingStatus() that returned r
  gallery,            \* the calls of listCaptures/deleteCapture: where each
                      \* one stands, and how it settled in the last step
  healthChecks        \* the calls of checkStreamHealth, taken probe by
                      \* probe: where each one stands in its loop

supVars == <<booted, restartState, mediamtxProcess, procs, timers, sent,
             wasReset, failures, spawnFailures, stops, run, stopped, revived>>

capVars == <<recordingProcess, isRecording, currentVideoFile,
             recordingStartTime, cprocs, calls, files, stamp, status>>

galVars == <<gallery>>

hlthVars == <<healthChecks>>

vars == <<supVars, capVars, galVars, hlthVars>>

(***************************************************************************)
(* Bounds of the model                                                     *)
(***************************************************************************)
\* processes the supervisor may spawn in one behaviour
MaxSpawns == 12
\* calls of stopMediaMTX() (SIGINT/SIGTERM deliveries) in one behaviour
MaxStops == 1
\* spawns that fail (the binary cannot be executed) in one behaviour
MaxSpawnFailures == 1
\* calls of startRecording()/stopRecording() in one behaviour
MaxCalls == 3
\* calls in one behaviour in which capturePhoto() is called too
MaxPhotoCalls == 2
\* calls of listCaptures()/deleteCapture() in one behaviour
MaxRequests == 2
\* calls of checkStreamHealth() in one behaviour that are taken probe by probe
MaxHealthChecks == 3

(***************************************************************************)
(* Values                                                                  *)
(***************************************************************************)
\* JavaScript null; a present value x is <<x>>
Null == <<>>

Min(a, b) == IF a <= b THEN a ELSE b
Max(a, b) == IF a >= b THEN a ELSE b

\* MEDIAMTX_RESTART (line 14-19)
initialDelay == 2000
maxDelay == 60000
maxRestarts == 10
resetAfter == 300000

\* Date.now(): the present, to which stored times are relative
Now == 1000000

\* How long a process runs before it exits, unless a timer is due earlier:
\* it dies almost at once, or shortly before its stability window ends.
RunFor == {1000, 299000}

\* JavaScript truthiness of a nullable number (null and 0 are falsy)
Truthy(x) == x # Null /\ x[1] # 0

\* restartState as first assigned (line 21-25) and as resetRestartState()
\* assigns it (line 66-72)
FreshRestartState ==
  [count |-> 0, delay |-> initialDelay, lastStableTime |-> Null]

\* Backoff without the cap of line 133
BackoffNoCap(delay) == delay * 2

\* Backoff growing by initialDelay instead of doubling
BackoffLinear(delay) == Min(delay + initialDelay, maxDelay)

\* Backoff halving instead of doubling
BackoffHalving(delay) == delay \div 2

\* line 131-134: the next delay after a restart was scheduled
Backoff(delay) == Min(delay * 2, maxDelay)

\* the restart cap with >= for > in line 121
GiveUpAtCap(count) == count >= maxRestarts

\* line 121: the restart cap
GiveUp(count) == count > maxRestarts

\* the exit handler without the test of line 100
ShouldRestartAlways(code) == TRUE

\* line 100: which exit codes lead to scheduleRestart()
ShouldRestart(code) == code # <<0>>

\* the stability test with > for >= in line 110
StableStrict(rs) ==
  /\ mediamtxProcess # Null
  /\ Truthy(rs.lastStableTime)
  /\ Now - rs.lastStableTime[1] > resetAfter

\* line 108-110: the stability timer's test, on the RestartState rs
Stable(rs) ==
  /\ mediamtxProcess # Null
  /\ Truthy(rs.lastStableTime)
  /\ Now - rs.lastStableTime[1] >= resetAfter

PermanentFailure == [type |-> "streamError", code |-> Null,
                     error |-> "MediaMTX failed too many times"]
SpawnFailure == [type |-> "streamError", code |-> Null,
                 error |-> "spawn mediamtx ENOENT"]
StreamStopped(code) == [type |-> "streamStopped", code |-> code, error |-> ""]

Count(s, e) == Cardinality({i \in 1..Len(s) : s[i] = e})

\* d ms pass: what RestartState and the timers read afterwards
ElapseState(rs, d) ==
  IF rs.lastStableTime = Null THEN rs
  ELSE [rs EXCEPT !.lastStableTime =
          <<Max(rs.lastStableTime[1] - d, Now - resetAfter)>>]
ElapseTimers(ts, d) == {[t EXCEPT !.at = @ - d] : t \in ts}

\* t has the earliest deadline among the pending timers
Due(t) == \A u \in timers : t.at <= u.at

\* no pending timer is due within the next d ms
NothingDueWithin(d) == \A u \in timers : Now + d <= u.at

Pids == 1..Len(procs)

(***************************************************************************)
(* CaptureService: values                                                  *)
(***************************************************************************)
\* line 185
MIN_DISK_SPACE_MB == 500

\* checkStreamHealth(retries = 3, ...) (line 207)
retries == 3

\* a checkStreamHealth that reports ready when its attempts are used up
healthFromLenient(answers, attempt) ==
  IF \E i \in attempt..retries : answers[i]
  THEN [ready |-> TRUE,
        attempts |-> CHOOSE i \in attempt..retries :
                       answers[i] /\ \A j \in attempt..(i - 1) : ~answers[j]]
  ELSE [ready |-> TRUE, attempts |-> retries]

\* checkStreamHealth (line 207-249) from attempt `attempt` on, given the
\* answer each probe gets (TRUE: the path is reported ready)
RECURSIVE healthFrom(_, _)
healthFrom(answers, attempt) ==
  IF attempt > retries THEN [ready |-> FALSE, attempts |-> retries]
  ELSE IF answers[attempt] THEN [ready |-> TRUE, attempts |-> attempt]
  ELSE healthFrom(answers, attempt + 1)

checkStreamHealth(answers) == healthFrom(answers, 1)

\* the answers the probes of one checkStreamHealth call can get
ProbeAnswers == [1..retries -> BOOLEAN]

\* checkStreamHealth(..., delayMs = 1000) (line 207)
delayMs == 1000

\* A call of checkStreamHealth that has not been made yet.  Of a call the
\* model keeps: where it stands (pc), the loop variable `attempt`, the
\* answers its probes got so far (TRUE: the path was reported ready), the ms
\* of delay it has asked for so far, and what it returned.
NoCheck ==
  [pc |-> "idle", attempt |-> 0, answers |-> <<>>, waited |-> 0,
   result |-> Null]

Checks == 1..MaxHealthChecks

\* parseInt of a text that does not begin with a number: NaN, with which
\* every comparison is false.  It stands here as a figure below every
\* figure df reports; the code compares it with MIN_DISK_SPACE_MB only.
NaN == 0 - 1

\* What checkDiskSpace reads (line 253-254), in MB: Null when execAsync
\* rejects (the shell, tail or awk could not be run); <<NaN>> when df itself
\* fails, since the status of the pipeline `df | tail | awk` is that of awk,
\* so execAsync resolves with an empty stdout; else the figure df printed.
DiskReadings ==
  {Null, <<NaN>>, <<MIN_DISK_SPACE_MB - 1>>, <<MIN_DISK_SPACE_MB>>}

\* checkDiskSpace with > for >= in line 257
checkDiskSpaceStrict(reading) ==
  IF reading = Null
  THEN [available |-> 0, sufficient |-> FALSE]
  ELSE [available |-> reading[1],
        sufficient |-> reading[1] > MIN_DISK_SPACE_MB]

\* checkDiskSpace (line 251-263) on a reading
checkDiskSpace(reading) ==
  IF reading = Null
  THEN [available |-> 0, sufficient |-> FALSE]
  ELSE [available |-> reading[1],
        sufficient |-> reading[1] >= MIN_DISK_SPACE_MB]

\* File names and paths.  A path or a file name is the sequence of its
\* segments (what stands between two '/'); a segment <<prefix, stamp, ext>>
\* stands for the string prefix + timestamp + ext, where the timestamp of
\* stamp 0 is the empty string.
Plain(s) == <<s, 0, "">>
Up == Plain("..")

\* path.normalize of an absolute path: a ".." segment removes the segment
\* before it, and is dropped at the root
RECURSIVE Resolve(_, _)
Resolve(done, rest) ==
  IF rest = <<>> THEN done
  ELSE IF Head(rest) = Up
       THEN Resolve(IF done = <<>> THEN done
                    ELSE SubSeq(done, 1, Len(done) - 1), Tail(rest))
       ELSE Resolve(Append(done, Head(rest)), Tail(rest))

\* path.join(dir, filename) for an absolute dir
join(dir, filename) == Resolve(<<>>, dir \o filename)

\* __dirname of the module, and the directories of line 180-182
dirname == <<Plain("app"), Plain("src"), Plain("camera")>>
CAPTURES_DIR == join(dirname, <<Up, Up, Plain("captures")>>)
PHOTOS_DIR == join(CAPTURES_DIR, <<Plain("photos")>>)
VIDEOS_DIR == join(CAPTURES_DIR, <<Plain("videos")>>)

\* generateFilename (line 201-205): type + "_" + the clock reading cut to
\* whole seconds + "." + extension; a name of one segment
generateFilename(type, extension, seconds) ==
  << <<type \o "_", seconds, "." \o extension>> >>

\* path.basename
basename(filepath) == <<filepath[Len(filepath)]>>

\* the fields of `this` as one record
This ==
  [recordingProcess |-> recordingProcess, isRecording |-> isRecording,
   currentVideoFile |-> currentVideoFile,
   recordingStartTime |-> recordingStartTime]

Assign(this) ==
  /\ recordingProcess' = this.recordingProcess
  /\ isRecording' = this.isRecording
  /\ currentVideoFile' = this.currentVideoFile
  /\ recordingStartTime' = this.recordingStartTime

\* the stat attempts of stopRecording (line 392)
statAttempts == 3

\* A call that has not been made yet.  Of a call the model keeps: the
\* operation, the await it stands at (pc), the health probes made (start)
\* or the stat attempts made (stop), the process whose 'exit' it listens to, the file it is
\* about, whether its graceful-stop timeout is armed, how it settled, and the
\* available MB it reported.
NoCall ==
  [op |-> "none", pc |-> "none", attempt |-> 0, proc |-> Null, file |-> Null,
   timer |-> FALSE, result |-> "none", available |-> Null]

Calls == 1..MaxCalls

\* A call that settled keeps how it settled for one step only: what a
\* settled call returned is an output of the step that settled it, and
\* nothing the service does later depends on it.  (A call whose timeout is
\* still armed is kept.)
Finished == [NoCall EXCEPT !.op = "done", !.pc = "done"]
Forget(cs) ==
  [c \in Calls |->
     IF cs[c].pc = "done" /\ ~cs[c].timer THEN Finished ELSE cs[c]]
CPids == 1..Len(cprocs)

\* the next call to be made
NextCall(c) == calls[c].op = "none" /\ \A b \in 1..(c - 1) : calls[b].op # "none"

\* A call of listCaptures/deleteCapture that has not been made yet.  Of a
\* call the model keeps: the operation, the await it stands at (pc), the
\* type or the file name it was given, the path it resolved, the entries
\* readdir gave it, the lists it has built, and how it settled.
NoRequest ==
  [op |-> "none", pc |-> "none", type |-> "", filename |-> Null,
   file |-> Null, names |-> {}, photos |-> <<>>, videos |-> <<>>,
   result |-> "none"]

Requests == 1..MaxRequests

\* as for Finished and Forget: how a call settled is kept for one step
Answered == [NoRequest EXCEPT !.op = "done", !.pc = "done"]
Dismiss(rs) ==
  [r \in Requests |-> IF rs[r].pc = "done" THEN Answered ELSE rs[r]]

NextRequest(r) ==
  gallery[r].op = "none" /\ \A b \in 1..(r - 1) : gallery[b].op # "none"

CapInit ==
  /\ recordingProcess = Null
  /\ isRecording = FALSE
  /\ currentVideoFile = Null
  /\ recordingStartTime = Null
  /\ cprocs = <<>>
  /\ calls = [c \in Calls |-> NoCall]
  /\ files = {}
  /\ stamp = 0
  /\ status = Null
  /\ gallery = [r \in Requests |-> NoRequest]
  /\ healthChecks = [h \in Checks |-> NoCheck]

(***************************************************************************)
(* Supervisor operations                                                   *)
(***************************************************************************)
Init ==
  /\ booted = FALSE
  /\ restartState = FreshRestartState
  /\ mediamtxProcess = Null
  /\ procs = <<>>
  /\ timers = {}
  /\ sent = <<>>
  /\ wasReset = Null
  /\ failures = 0
  /\ spawnFailures = 0
  /\ stops = 0
  /\ run = <<>>
  /\ stopped = FALSE
  /\ revived = FALSE
  /\ CapInit

\* a startMediaMTX that calls resetRestartState() before it spawns
startMediaMTXResetting(rs, pending, ok) ==
  LET pid == Len(procs) + 1 IN
  /\ procs' = Append(procs, [status |-> IF ok THEN "running" ELSE "failing",
                             signalled |-> FALSE])
  /\ spawnFailures' = IF ok THEN spawnFailures ELSE spawnFailures + 1
  /\ mediamtxProcess' = <<pid>>
  /\ restartState' = [FreshRestartState EXCEPT !.lastStableTime = <<Now>>]
  /\ timers' = pending \cup
       {[kind |-> "stability", at |-> Now + resetAfter, proc |-> pid]}

\* startMediaMTX (line 74-116) on RestartState rs with the timers `pending`
\* armed; `ok` is whether the binary could be executed.
startMediaMTX(rs, pending, ok) ==
  LET pid == Len(procs) + 1 IN
  /\ procs' = Append(procs, [status |-> IF ok THEN "running" ELSE "failing",
                             signalled |-> FALSE])
  /\ spawnFailures' = IF ok THEN spawnFailures ELSE spawnFailures + 1
  /\ mediamtxProcess' = <<pid>>
  /\ restartState' = [rs EXCEPT !.lastStableTime = <<Now>>]
  /\ timers' = pending \cup
       {[kind |-> "stability", at |-> Now + resetAfter, proc |-> pid]}

\* the spawn outcomes the model allows for the next spawn
SpawnOutcomes ==
  IF spawnFailures < MaxSpawnFailures THEN {TRUE, FALSE} ELSE {TRUE}

\* scheduleRestart without the return of line 124
scheduleRestartNoReturn(rs, pending, out, p) ==
  LET count == rs.count + 1 IN
  /\ restartState' = [rs EXCEPT !.count = count, !.delay = Backoff(rs.delay)]
  /\ sent' = IF GiveUp(count) THEN Append(out, PermanentFailure) ELSE out
  /\ timers' = pending \cup
       {[kind |-> "restart", at |-> Now + rs.delay, proc |-> p]}
  /\ run' = Append(run, rs.delay)

\* scheduleRestart (line 118-135) on RestartState rs, called from the exit
\* handler of process p after it broadcast `out`, with `pending` armed.
scheduleRestart(rs, pending, out, p) ==
  LET count == rs.count + 1 IN
  IF GiveUp(count)
  THEN /\ restartState' = [rs EXCEPT !.count = count]
       /\ sent' = Append(out, PermanentFailure)
       /\ timers' = pending
       /\ run' = run
  ELSE /\ restartState' = [rs EXCEPT !.count = count,
                                     !.delay = Backoff(rs.delay)]
       /\ sent' = out
       /\ timers' = pending \cup
            {[kind |-> "restart", at |-> Now + rs.delay, proc |-> p]}
       /\ run' = Append(run, rs.delay)

\* an 'exit' handler that calls scheduleRestart() before it broadcasts
onExitRestartFirst(rs, pending, p, code) ==
  IF ShouldRestart(code)
  THEN LET count == rs.count + 1 IN
       IF GiveUp(count)
       THEN /\ restartState' = [rs EXCEPT !.count = count]
            /\ sent' = <<PermanentFailure, StreamStopped(code)>>
            /\ timers' = pending
            /\ run' = run
       ELSE /\ restartState' = [rs EXCEPT !.count = count,
                                          !.delay = Backoff(rs.delay)]
            /\ sent' = <<StreamStopped(code)>>
            /\ timers' = pending \cup
                 {[kind |-> "restart", at |-> Now + rs.delay, proc |-> p]}
            /\ run' = Append(run, rs.delay)
  ELSE /\ sent' = <<StreamStopped(code)>>
       /\ restartState' = rs
       /\ timers' = pending
       /\ run' = run

\* the 'exit' handler of process p (line 96-103)
onExit(rs, pending, p, code) ==
  IF ShouldRestart(code)
  THEN scheduleRestart(rs, pending, <<StreamStopped(code)>>, p)
  ELSE /\ sent' = <<StreamStopped(code)>>
       /\ restartState' = rs
       /\ timers' = pending
       /\ run' = run

\* The exit codes a process can report: a number, or null when a signal
\* ended it (the only signal modelled is the SIGTERM of stopMediaMTX).
ExitCodes(p) ==
  IF procs[p].signalled THEN {<<0>>, <<1>>, Null} ELSE {<<0>>, <<1>>}

\* server.listen callback (line 158-178): the one explicit start
Boot ==
  /\ ~booted
  /\ booted' = TRUE
  /\ \E ok \in SpawnOutcomes : startMediaMTX(restartState, timers, ok)
  /\ stopped' = FALSE
  /\ sent' = <<>>
  /\ wasReset' = Null
  /\ UNCHANGED <<failures, stops, run, revived>>

\* The process exits after d more ms; Node emits 'exit' (line 96).  Node
\* documents that 'exit' may or may not follow an 'error'.
Exit(p, code, d) ==
  /\ procs[p].status \in {"running", "errored"}
  /\ code \in ExitCodes(p)
  /\ NothingDueWithin(d)
  /\ procs' = [procs EXCEPT ![p] = [status |-> "exited", signalled |-> FALSE]]
  /\ onExit(ElapseState(restartState, d), ElapseTimers(timers, d), p, code)
  /\ failures' = failures + Count(sent', PermanentFailure)
  /\ wasReset' = Null
  /\ UNCHANGED <<booted, mediamtxProcess, spawnFailures, stops, stopped,
                 revived>>

\* an 'error' handler that calls scheduleRestart() as the 'exit' handler does
SpawnErrorRestarts(p) ==
  /\ procs[p].status = "failing"
  /\ procs' = [procs EXCEPT ![p].status = "errored"]
  /\ scheduleRestart(restartState, timers, <<SpawnFailure>>, p)
  /\ failures' = failures + Count(sent', PermanentFailure)
  /\ wasReset' = Null
  /\ UNCHANGED <<booted, mediamtxProcess, spawnFailures, stops, stopped,
                 revived>>

\* an 'error' handler that counts the failed spawn as a restart attempt
SpawnErrorCounted(p) ==
  /\ procs[p].status = "failing"
  /\ procs' = [procs EXCEPT ![p].status = "errored"]
  /\ restartState' = [restartState EXCEPT !.count = @ + 1]
  /\ sent' = <<SpawnFailure>>
  /\ wasReset' = Null
  /\ UNCHANGED <<booted, mediamtxProcess, timers, failures, spawnFailures,
                 stops, run, stopped, revived>>

\* The spawn failed; Node emits 'error' on the next tick (line 91-94).
SpawnError(p) ==
  /\ procs[p].status = "failing"
  /\ procs' = [procs EXCEPT ![p].status = "errored"]
  /\ sent' = <<SpawnFailure>>
  /\ wasReset' = Null
  /\ UNCHANGED <<booted, restartState, mediamtxProcess, timers, failures,
                 spawnFailures, stops, run, stopped, revived>>

\* The timer armed by scheduleRestart fires (line 128)
RestartTimer(t) ==
  /\ t.kind = "restart"
  /\ Due(t)
  /\ Len(procs) < MaxSpawns
  /\ LET d == t.at - Now IN
     \E ok \in SpawnOutcomes :
        startMediaMTX(ElapseState(restartState, d),
                      ElapseTimers(timers \ {t}, d), ok)
  /\ revived' = (revived \/ stopped)
  /\ sent' = <<>>
  /\ wasReset' = Null
  /\ UNCHANGED <<booted, failures, stops, run, stopped>>

\* The timer armed by startMediaMTX fires (line 107-115)
StabilityTimer(t) ==
  /\ t.kind = "stability"
  /\ Due(t)
  /\ LET d == t.at - Now
         rs == ElapseState(restartState, d)
     IN /\ timers' = ElapseTimers(timers \ {t}, d)
        /\ IF Stable(rs)
           THEN /\ restartState' = FreshRestartState
                /\ wasReset' = <<rs.count, rs.delay>>
                /\ run' = <<>>
           ELSE /\ restartState' = rs
                /\ wasReset' = Null
                /\ run' = run
  /\ sent' = <<>>
  /\ UNCHANGED <<booted, mediamtxProcess, procs, failures, spawnFailures,
                 stops, stopped, revived>>

\* stopMediaMTX (line 137-142), as called by shutdown (line 145-152).  A
\* SIGTERM sent to a process that is gone has no effect.
stopMediaMTX ==
  /\ stops < MaxStops
  /\ stops' = stops + 1
  /\ stopped' = TRUE
  /\ IF mediamtxProcess # Null
     THEN LET p == mediamtxProcess[1] IN
          /\ procs' = [procs EXCEPT ![p].signalled =
                         (procs[p].status = "running" \/ procs[p].signalled)]
          /\ mediamtxProcess' = Null
     ELSE UNCHANGED <<procs, mediamtxProcess>>
  /\ sent' = <<>>
  /\ wasReset' = Null
  /\ UNCHANGED <<booted, restartState, timers, failures, spawnFailures, run,
                 revived>>

SupNext ==
  \/ Boot /\ UNCHANGED <<capVars, galVars, hlthVars>>
  \/ \E p \in Pids, code \in {<<0>>, <<1>>, Null}, d \in RunFor :
       Exit(p, code, d) /\ UNCHANGED <<capVars, galVars, hlthVars>>
  \/ \E p \in Pids : SpawnError(p) /\ UNCHANGED <<capVars, galVars, hlthVars>>
  \/ \E t \in timers : RestartTimer(t) /\ UNCHANGED <<capVars, galVars, hlthVars>>
  \/ \E t \in timers : StabilityTimer(t) /\ UNCHANGED <<capVars, galVars, hlthVars>>
  \/ stopMediaMTX /\ UNCHANGED <<capVars, galVars, hlthVars>>

SupervisorSpec == Init /\ [][SupNext]_vars

(***************************************************************************)
(* CaptureService operations                                               *)
(***************************************************************************)
\* startRecording without the check of line 303
StartRejectedNever == FALSE

\* line 303: the conflict check of startRecording
StartRejected == isRecording

\* stopRecording without the check of line 366
StopRejectedNever == FALSE

\* line 366: the conflict check of stopRecording
StopRejected == ~isRecording \/ recordingProcess = Null

\* the session fields after a spawn that leaves isRecording as it was
startSessionUnmarked(this, pid, filepath, t) ==
  [this EXCEPT !.recordingProcess = <<pid>>,
               !.currentVideoFile = <<filepath>>,
               !.recordingStartTime = <<t>>]

\* line 320-333: the session fields after the spawn of process pid
startSession(this, pid, filepath, t) ==
  [recordingProcess |-> <<pid>>, isRecording |-> TRUE,
   currentVideoFile |-> <<filepath>>, recordingStartTime |-> <<t>>]

\* the 'error' listener without line 338
onRecordingErrorKeepsHandle(this) == [this EXCEPT !.isRecording = FALSE]

\* line 335-339: the 'error' listener startRecording registers
onRecordingError(this) ==
  [this EXCEPT !.isRecording = FALSE, !.recordingProcess = Null]

\* an 'exit' listener that leaves the session as it is
onRecordingExitIgnored(this) == this

\* line 341-347: the 'exit' listener startRecording registers
onRecordingExit(this) ==
  IF this.isRecording
  THEN [this EXCEPT !.isRecording = FALSE, !.recordingProcess = Null]
  ELSE this

\* line 381-384: the 'exit' listener stopRecording registers (its
\* synchronous part)
onStopExit(this) ==
  [this EXCEPT !.isRecording = FALSE, !.recordingProcess = Null]

\* kill('SIGTERM') on process p; without effect on a process that is gone
Kill(ps, p) ==
  [ps EXCEPT ![p].signalled = (ps[p].status = "running" \/ ps[p].signalled)]

Begin(c, op, pc) == [NoCall EXCEPT !.op = op, !.pc = pc]
Settled(call, result) == [call EXCEPT !.pc = "done", !.result = result]

\* startRecording() is called (line 302-307): the conflict check, then
\* checkStreamHealth() is awaited
StartRecording(c) ==
  /\ NextCall(c)
  /\ calls' = [Forget(calls) EXCEPT ![c] =
       IF StartRejected
       THEN Settled(Begin(c, "start", "done"), "Already recording")
       ELSE Begin(c, "start", "health")]
  /\ UNCHANGED <<recordingProcess, isRecording, currentVideoFile,
                 recordingStartTime, cprocs, files, stamp>>

\* checkStreamHealth returns; startRecording goes on to checkDiskSpace
\* (line 307-312), capturePhoto to ffmpeg (line 269-275).
\* checkStreamHealth reads and writes no field of the service, so its probes
\* and waits are taken as one step.
StreamHealth(c, answers) ==
  /\ calls[c].op \in {"start", "photo"}
  /\ calls[c].pc = "health"
  /\ LET health == checkStreamHealth(answers) IN
     calls' = [Forget(calls) EXCEPT ![c] =
       IF health.ready
       THEN [@ EXCEPT !.pc = IF calls[c].op = "start" THEN "disk"
                                                      ELSE "exec"]
       ELSE Settled([@ EXCEPT !.attempt = health.attempts],
                    "Stream not ready")]
  /\ UNCHANGED <<recordingProcess, isRecording, currentVideoFile,
                 recordingStartTime, cprocs, files, stamp>>

\* checkDiskSpace answers; startRecording runs to its end (line 312-362).
\* `ok` is whether ffmpeg could be executed, `tick` whether the clock has
\* moved to the next second since generateFilename was last called.
DiskProbe(c, reading, ok, tick) ==
  /\ calls[c].op = "start"
  /\ calls[c].pc = "disk"
  /\ LET diskSpace == checkDiskSpace(reading)
         seconds == stamp + tick
         filename == generateFilename("video", "mp4", seconds)
         filepath == join(VIDEOS_DIR, filename)
         pid == Len(cprocs) + 1
     IN IF ~diskSpace.sufficient
        THEN /\ calls' = [Forget(calls) EXCEPT ![c] =
                  [Settled(@, "Insufficient disk space")
                     EXCEPT !.available = <<diskSpace.available>>]]
             /\ UNCHANGED <<recordingProcess, isRecording, currentVideoFile,
                            recordingStartTime, cprocs, stamp>>
        ELSE /\ cprocs' = Append(cprocs,
                  [status |-> IF ok THEN "running" ELSE "failing",
                   stdinOpen |-> TRUE, quit |-> FALSE, signalled |-> FALSE,
                   file |-> filepath])
             /\ Assign(startSession(This, pid, filepath, seconds))
             /\ stamp' = seconds
             /\ calls' = [Forget(calls) EXCEPT ![c] =
                  [Settled(@, "ok") EXCEPT
                     !.proc = <<pid>>, !.file = <<filepath>>,
                     !.available = <<diskSpace.available>>]]
  /\ UNCHANGED files

\* stopRecording() is called (line 365-426): the conflict check, then the
\* executor of the promise: arm the timeout, listen to 'exit' of
\* this.recordingProcess, ask the process to stop.  A read of a property of
\* null throws, which rejects the promise.
StopRecording(c) ==
  /\ NextCall(c)
  /\ IF StopRejected
     THEN /\ calls' = [Forget(calls) EXCEPT ![c] =
               Settled(Begin(c, "stop", "done"), "Not currently recording")]
          /\ cprocs' = cprocs
     ELSE IF recordingProcess = Null
     THEN /\ calls' = [Forget(calls) EXCEPT ![c] =
               [Settled(Begin(c, "stop", "done"), "TypeError") EXCEPT
                  !.file = currentVideoFile, !.timer = TRUE]]
          /\ cprocs' = cprocs
     ELSE LET p == recordingProcess[1] IN
          /\ calls' = [Forget(calls) EXCEPT ![c] =
               [Begin(c, "stop", "waitExit") EXCEPT
                  !.file = currentVideoFile, !.timer = TRUE,
                  !.proc = recordingProcess]]
          /\ cprocs' = IF cprocs[p].stdinOpen
                       THEN [cprocs EXCEPT ![p].quit = TRUE,
                                           ![p].stdinOpen = FALSE]
                       ELSE Kill(cprocs, p)
  /\ UNCHANGED <<recordingProcess, isRecording, currentVideoFile,
                 recordingStartTime, files, stamp>>

\* the graceful-stop timeout of call c fires (line 374-379)
GracefulTimeout(c) ==
  /\ calls[c].timer
  /\ calls' = [Forget(calls) EXCEPT ![c].timer = FALSE]
  /\ cprocs' = IF recordingProcess # Null
               THEN Kill(cprocs, recordingProcess[1])
               ELSE cprocs
  /\ UNCHANGED <<recordingProcess, isRecording, currentVideoFile,
                 recordingStartTime, files, stamp>>

\* the calls of stopRecording that listen to 'exit' of process p
Waiting(p) == {c \in Calls : calls[c].pc = "waitExit" /\ calls[c].proc = <<p>>}

\* Process p exits and Node emits 'exit': the listener of startRecording
\* runs (line 341-347), then the listener of every stopRecording call that
\* waits for p, up to its first await (line 381-389).  Node documents that
\* 'exit' may or may not follow an 'error'.
CaptureExit(p) ==
  /\ cprocs[p].status \in {"running", "errored"}
  /\ cprocs' = [cprocs EXCEPT ![p].status = "exited", ![p].stdinOpen = FALSE,
                              ![p].quit = FALSE, ![p].signalled = FALSE]
  /\ Assign(IF Waiting(p) = {}
            THEN onRecordingExit(This)
            ELSE onStopExit(onRecordingExit(This)))
  /\ calls' = [c \in Calls |->
       IF c \in Waiting(p)
       THEN [calls[c] EXCEPT !.pc = "sync", !.timer = FALSE]
       ELSE Forget(calls)[c]]
  /\ UNCHANGED <<files, stamp>>

\* ffmpeg could not be executed; Node emits 'error' (line 335-339)
CaptureError(p) ==
  /\ cprocs[p].status = "failing"
  /\ cprocs' = [cprocs EXCEPT ![p].status = "errored"]
  /\ Assign(onRecordingError(This))
  /\ calls' = Forget(calls)
  /\ UNCHANGED <<files, stamp>>

\* the running process p writes video data to its output file
WriteFile(p) ==
  /\ cprocs[p].status = "running"
  /\ cprocs[p].file \notin files
  /\ files' = files \cup {cprocs[p].file}
  /\ calls' = Forget(calls)
  /\ UNCHANGED <<recordingProcess, isRecording, currentVideoFile,
                 recordingStartTime, cprocs, stamp>>

\* the 500 ms wait for the file system is over (line 389)
SyncWait(c) ==
  /\ calls[c].pc = "sync"
  /\ calls' = [Forget(calls) EXCEPT ![c].pc = "verify"]
  /\ UNCHANGED <<recordingProcess, isRecording, currentVideoFile,
                 recordingStartTime, cprocs, files, stamp>>

\* a stat loop that gives up after the first attempt
StatAttemptOnce(c) ==
  /\ calls[c].pc = "verify"
  /\ calls' = [Forget(calls) EXCEPT ![c] =
       IF @.file[1] \in files THEN Settled([@ EXCEPT !.attempt = @ + 1], "ok")
       ELSE Settled([@ EXCEPT !.attempt = @ + 1],
                    "Video file not found or empty after recording")]
  /\ UNCHANGED <<recordingProcess, isRecording, currentVideoFile,
                 recordingStartTime, cprocs, files, stamp>>

\* one turn of the stat loop (line 392-411)
StatAttempt(c) ==
  /\ calls[c].pc = "verify"
  /\ calls' = [Forget(calls) EXCEPT ![c] =
       IF @.file[1] \in files THEN Settled([@ EXCEPT !.attempt = @ + 1], "ok")
       ELSE IF @.attempt + 1 < statAttempts THEN [@ EXCEPT !.attempt = @ + 1]
       ELSE Settled([@ EXCEPT !.attempt = @ + 1],
                    "Video file not found or empty after recording")]
  /\ UNCHANGED <<recordingProcess, isRecording, currentVideoFile,
                 recordingStartTime, cprocs, files, stamp>>

\* a capturePhoto() that refuses to run while a recording is active
CapturePhotoExclusive(c, tick) ==
  /\ NextCall(c)
  /\ LET filename == generateFilename("photo", "jpg", stamp + tick)
         filepath == join(PHOTOS_DIR, filename)
     IN calls' = [Forget(calls) EXCEPT ![c] =
          IF isRecording
          THEN Settled(Begin(c, "photo", "done"), "Already recording")
          ELSE [Begin(c, "photo", "health") EXCEPT !.file = <<filepath>>]]
  /\ stamp' = stamp + tick
  /\ UNCHANGED <<recordingProcess, isRecording, currentVideoFile,
                 recordingStartTime, cprocs, files>>

\* capturePhoto() is called (line 265-269): the file name is generated,
\* then checkStreamHealth() is awaited
CapturePhoto(c, tick) ==
  /\ NextCall(c)
  /\ LET filename == generateFilename("photo", "jpg", stamp + tick)
         filepath == join(PHOTOS_DIR, filename)
     IN calls' = [Forget(calls) EXCEPT ![c] =
          [Begin(c, "photo", "health") EXCEPT !.file = <<filepath>>]]
  /\ stamp' = stamp + tick
  /\ UNCHANGED <<recordingProcess, isRecording, currentVideoFile,
                 recordingStartTime, cprocs, files>>

\* How the ffmpeg of capturePhoto can end: exit 0 with the frame written,
\* exit 0 with no file, failure or time-out with no file, failure or
\* time-out with a partial file left.
ExecOutcomes ==
  {[ok |-> TRUE, written |-> TRUE], [ok |-> TRUE, written |-> FALSE],
   [ok |-> FALSE, written |-> FALSE], [ok |-> FALSE, written |-> TRUE]}

\* execAsync(ffmpeg ...) of capturePhoto settles (line 275-280, 288-294):
\* on success stat is awaited, on failure unlink
PhotoExec(c, outcome) ==
  /\ calls[c].op = "photo"
  /\ calls[c].pc = "exec"
  /\ files' = IF outcome.written THEN files \cup {calls[c].file[1]} ELSE files
  /\ calls' = [Forget(calls) EXCEPT ![c].pc =
                 IF outcome.ok THEN "stat" ELSE "unlink"]
  /\ UNCHANGED <<recordingProcess, isRecording, currentVideoFile,
                 recordingStartTime, cprocs, stamp>>

\* fsPromises.stat of capturePhoto settles (line 280-287, 288-294)
PhotoStat(c) ==
  /\ calls[c].op = "photo"
  /\ calls[c].pc = "stat"
  /\ calls' = [Forget(calls) EXCEPT ![c] =
       IF @.file[1] \in files THEN Settled(@, "ok")
       ELSE [@ EXCEPT !.pc = "unlink"]]
  /\ UNCHANGED <<recordingProcess, isRecording, currentVideoFile,
                 recordingStartTime, cprocs, files, stamp>>

\* a catch block that rethrows without the unlink of line 293-297
PhotoUnlinkSkipped(c) ==
  /\ calls[c].op = "photo"
  /\ calls[c].pc = "unlink"
  /\ calls' = [Forget(calls) EXCEPT ![c] = Settled(@, "Photo capture failed")]
  /\ UNCHANGED <<recordingProcess, isRecording, currentVideoFile,
                 recordingStartTime, cprocs, files, stamp>>

\* fsPromises.unlink of capturePhoto settles, with or without error
\* (line 293-298)
PhotoUnlink(c) ==
  /\ calls[c].op = "photo"
  /\ calls[c].pc = "unlink"
  /\ files' = files \ {calls[c].file[1]}
  /\ calls' = [Forget(calls) EXCEPT ![c] = Settled(@, "Photo capture failed")]
  /\ UNCHANGED <<recordingProcess, isRecording, currentVideoFile,
                 recordingStartTime, cprocs, stamp>>

\* the status of a session that is not recording (line 431)
Idle == [isRecording |-> FALSE, filename |-> Null, duration |-> Null,
         startTime |-> Null]

\* the same with the test of line 430 on currentVideoFile
getRecordingStatusOfFile(this, seconds) ==
  IF this.currentVideoFile = Null THEN Idle
  ELSE [isRecording |-> TRUE,
        filename |-> <<basename(this.currentVideoFile[1])>>,
        duration |-> <<seconds - this.recordingStartTime[1]>>,
        startTime |-> this.recordingStartTime]

\* getRecordingStatus (line 429-440) on the fields `this`, when the clock
\* reads `seconds`; path.basename(null) throws
getRecordingStatus(this, seconds) ==
  IF ~this.isRecording THEN Idle
  ELSE IF this.currentVideoFile = Null THEN "TypeError"
  ELSE [isRecording |-> TRUE,
        filename |-> <<basename(this.currentVideoFile[1])>>,
        duration |-> <<seconds - this.recordingStartTime[1]>>,
        startTime |-> this.recordingStartTime]

\* getRecordingStatus() is called; `elapsed` is how many seconds the clock
\* has moved since generateFilename last read it.  The call is synchronous
\* and settles in the step it is made in; the calls in flight stay where
\* they are.
GetRecordingStatus(elapsed) ==
  /\ status' = <<getRecordingStatus(This, stamp + elapsed)>>
  /\ calls' = Forget(calls)
  /\ UNCHANGED <<recordingProcess, isRecording, currentVideoFile,
                 recordingStartTime, cprocs, files, stamp>>

\* seconds the clock can have moved since generateFilename last read it
\* (the first reading is taken as second 1)
Ticks == IF stamp = 0 THEN {1} ELSE {0, 1}

CapNext ==
  \/ \E c \in Calls : StartRecording(c) /\ status' = Null /\ UNCHANGED <<supVars, galVars, hlthVars>>
  \/ \E c \in Calls, answers \in ProbeAnswers :
       StreamHealth(c, answers) /\ status' = Null /\ UNCHANGED <<supVars, galVars, hlthVars>>
  \/ \E c \in Calls, reading \in DiskReadings, ok \in BOOLEAN, tick \in Ticks :
       DiskProbe(c, reading, ok, tick) /\ status' = Null /\ UNCHANGED <<supVars, galVars, hlthVars>>
  \/ \E c \in Calls : StopRecording(c) /\ status' = Null /\ UNCHANGED <<supVars, galVars, hlthVars>>
  \/ \E c \in Calls : GracefulTimeout(c) /\ status' = Null /\ UNCHANGED <<supVars, galVars, hlthVars>>
  \/ \E p \in CPids : CaptureExit(p) /\ status' = Null /\ UNCHANGED <<supVars, galVars, hlthVars>>
  \/ \E p \in CPids : CaptureError(p) /\ status' = Null /\ UNCHANGED <<supVars, galVars, hlthVars>>
  \/ \E p \in CPids : WriteFile(p) /\ status' = Null /\ UNCHANGED <<supVars, galVars, hlthVars>>
  \/ \E c \in Calls : SyncWait(c) /\ status' = Null /\ UNCHANGED <<supVars, galVars, hlthVars>>
  \/ \E c \in Calls : StatAttempt(c) /\ status' = Null /\ UNCHANGED <<supVars, galVars, hlthVars>>
  \/ \E elapsed \in {0, 1} : GetRecordingStatus(elapsed) /\ UNCHANGED <<supVars, galVars, hlthVars>>

CaptureSpec == Init /\ [][CapNext]_vars

\* Recording and photo capture together: the calls of one behaviour are
\* startRecording(), stopRecording() and capturePhoto(), MaxPhotoCalls of
\* them in all.
PhotoCalls == 1..MaxPhotoCalls

PhotoNext ==
  \/ \E c \in PhotoCalls : StartRecording(c) /\ status' = Null /\ UNCHANGED <<supVars, galVars, hlthVars>>
  \/ \E c \in PhotoCalls, answers \in ProbeAnswers :
       StreamHealth(c, answers) /\ status' = Null /\ UNCHANGED <<supVars, galVars, hlthVars>>
  \/ \E c \in PhotoCalls, reading \in DiskReadings, ok \in BOOLEAN, tick \in Ticks :
       DiskProbe(c, reading, ok, tick) /\ status' = Null /\ UNCHANGED <<supVars, galVars, hlthVars>>
  \/ \E c \in PhotoCalls : StopRecording(c) /\ status' = Null /\ UNCHANGED <<supVars, galVars, hlthVars>>
  \/ \E c \in PhotoCalls : GracefulTimeout(c) /\ status' = Null /\ UNCHANGED <<supVars, galVars, hlthVars>>
  \/ \E p \in CPids : CaptureExit(p) /\ status' = Null /\ UNCHANGED <<supVars, galVars, hlthVars>>
  \/ \E p \in CPids : CaptureError(p) /\ status' = Null /\ UNCHANGED <<supVars, galVars, hlthVars>>
  \/ \E p \in CPids : WriteFile(p) /\ status' = Null /\ UNCHANGED <<supVars, galVars, hlthVars>>
  \/ \E c \in PhotoCalls : SyncWait(c) /\ status' = Null /\ UNCHANGED <<supVars, galVars, hlthVars>>
  \/ \E c \in PhotoCalls : StatAttempt(c) /\ status' = Null /\ UNCHANGED <<supVars, galVars, hlthVars>>
  \/ \E elapsed \in {0, 1} : GetRecordingStatus(elapsed) /\ UNCHANGED <<supVars, galVars, hlthVars>>
  \/ \E c \in PhotoCalls, tick \in Ticks :
       CapturePhoto(c, tick) /\ status' = Null /\ UNCHANGED <<supVars, galVars, hlthVars>>
  \/ \E c \in PhotoCalls, outcome \in ExecOutcomes :
       PhotoExec(c, outcome) /\ status' = Null /\ UNCHANGED <<supVars, galVars, hlthVars>>
  \/ \E c \in PhotoCalls : PhotoStat(c) /\ status' = Null /\ UNCHANGED <<supVars, galVars, hlthVars>>
  \/ \E c \in PhotoCalls : PhotoUnlink(c) /\ status' = Null /\ UNCHANGED <<supVars, galVars, hlthVars>>

PhotoSpec == Init /\ [][PhotoNext]_vars

(***************************************************************************)
(* CaptureService: checkStreamHealth, probe by probe                       *)
(***************************************************************************)
\* line 208: attempt++ and the loop test; line 248 when the loop is left
LoopNext(check) ==
  IF check.attempt + 1 <= retries
  THEN [check EXCEPT !.attempt = @ + 1, !.pc = "probe"]
  ELSE [check EXCEPT !.attempt = @ + 1, !.pc = "done", !.result = <<FALSE>>]

\* checkStreamHealth() is called (line 207-208): the loop is entered
CheckStreamHealth(h) ==
  /\ healthChecks[h].pc = "idle"
  /\ healthChecks' = [healthChecks EXCEPT ![h] = LoopNext(@)]

\* a probe that is followed by the delay after the last attempt too
HealthProbeAlwaysWaits(h, ready) ==
  /\ healthChecks[h].pc = "probe"
  /\ LET probed == [healthChecks[h] EXCEPT !.answers = Append(@, ready)] IN
     healthChecks' = [healthChecks EXCEPT ![h] =
       IF ready THEN [probed EXCEPT !.pc = "done", !.result = <<TRUE>>]
       ELSE [probed EXCEPT !.pc = "wait", !.waited = @ + delayMs]]

\* The probe of this attempt settles (line 210-246): `ready` is whether the
\* path was reported ready; an error, a time-out after 3000 ms, an answer
\* that cannot be parsed and an exception all count as not ready.  A ready
\* answer returns true (line 235-237); otherwise the delay is asked for
\* unless this was the last attempt (line 239-245).
HealthProbe(h, ready) ==
  /\ healthChecks[h].pc = "probe"
  /\ LET probed == [healthChecks[h] EXCEPT !.answers = Append(@, ready)] IN
     healthChecks' = [healthChecks EXCEPT ![h] =
       IF ready THEN [probed EXCEPT !.pc = "done", !.result = <<TRUE>>]
       ELSE IF probed.attempt < retries
       THEN [probed EXCEPT !.pc = "wait", !.waited = @ + delayMs]
       ELSE LoopNext(probed)]

\* the delay between two attempts is over (line 240, 244)
HealthDelay(h) ==
  /\ healthChecks[h].pc = "wait"
  /\ healthChecks' = [healthChecks EXCEPT ![h] = LoopNext(@)]

HealthNext ==
  \/ \E h \in Checks : CheckStreamHealth(h) /\ UNCHANGED <<supVars, capVars, galVars>>
  \/ \E h \in Checks, ready \in BOOLEAN :
       HealthProbe(h, ready) /\ UNCHANGED <<supVars, capVars, galVars>>
  \/ \E h \in Checks : HealthDelay(h) /\ UNCHANGED <<supVars, capVars, galVars>>

HealthSpec == Init /\ [][HealthNext]_vars

(***************************************************************************)
(* CaptureService: the stored captures (listCaptures, deleteCapture)       *)
(***************************************************************************)
\* The files that capture operations (or the operator) put on the disk in
\* one behaviour, each with the time of its creation in ms (birthtime):
\* two photos, of which the one with the later name is the older file, a
\* file in the photos directory that is no photo, and a video.
Stored ==
  {[path |-> join(PHOTOS_DIR, generateFilename("photo", "jpg", 1)),
    birthtime |-> 30],
   [path |-> join(PHOTOS_DIR, generateFilename("photo", "jpg", 2)),
    birthtime |-> 10],
   [path |-> join(PHOTOS_DIR, <<Plain("notes.txt")>>), birthtime |-> 20],
   [path |-> join(VIDEOS_DIR, generateFilename("video", "mp4", 1)),
    birthtime |-> 20]}

birthtime(filepath) == (CHOOSE a \in Stored : a.path = filepath).birthtime

\* the file names a client passes to deleteCapture(): those of the stored
\* files, and the name of a photo that is not stored
Filenames ==
  {basename(a.path) : a \in Stored} \cup {generateFilename("photo", "jpg", 9)}

\* type of listCaptures(type)
Types == {"all", "photos", "videos"}

\* Date.prototype.toISOString and new Date(string), on a time in ms
toISOString(ms) == <<"ISO", ms>>
parseDate(iso) == iso[2]

\* fsPromises.readdir(dir): the names of the files in dir.  (A directory
\* that does not exist gives the empty listing too: line 468-470.)
readdir(dir) ==
  {basename(f) : f \in {g \in files : /\ Len(g) = Len(dir) + 1
                                       /\ SubSeq(g, 1, Len(dir)) = dir}}

\* String.prototype.startsWith / endsWith on a file name
startsWith(filename, prefix) == filename[1][1] = prefix
endsWith(filename, ext) == filename[Len(filename)][3] = ext

\* line 451-463: what the stat of one entry gives; Null when stat throws
statEntry(dir, filename) ==
  LET filepath == join(dir, filename) IN
  IF filepath \in files
  THEN <<[filename |-> filename,
          created |-> toISOString(birthtime(filepath))]>>
  ELSE Null

\* a comparator that puts the oldest first
compareOldestFirst(a, b) == parseDate(a.created) - parseDate(b.created)

\* line 467: the comparator of the sort
compareCreated(a, b) == parseDate(b.created) - parseDate(a.created)

\* Array.prototype.sort with compareCreated: a stable sort, here by
\* insertion
RECURSIVE insertSorted(_, _)
insertSorted(sorted, x) ==
  IF sorted = <<>> THEN <<x>>
  ELSE IF compareCreated(Head(sorted), x) <= 0
       THEN <<Head(sorted)>> \o insertSorted(Tail(sorted), x)
       ELSE <<x>> \o sorted

RECURSIVE sortFrom(_, _)
sortFrom(done, rest) ==
  IF rest = <<>> THEN done
  ELSE sortFrom(insertSorted(done, Head(rest)), Tail(rest))

sort(entries) == sortFrom(<<>>, entries)

\* the orders in which readdir can have given the names of a set
Orders(names) ==
  {o \in [1..Cardinality(names) -> names] :
     \A i, j \in 1..Cardinality(names) : o[i] = o[j] => i = j}

\* line 448-467: stat every entry, drop the failed ones, sort
listing(dir, order) ==
  LET stats == [i \in 1..Len(order) |-> statEntry(dir, order[i])]
      found == SelectSeq(stats, LAMBDA e : e # Null)
  IN sort([i \in 1..Len(found) |-> found[i][1]])

\* a getFilePath that puts every name into the photos directory
getFilePathOfAny(filename) == <<join(PHOTOS_DIR, filename)>>

\* getFilePath (line 504-511); Null for null
getFilePath(filename) ==
  IF startsWith(filename, "photo_") THEN <<join(PHOTOS_DIR, filename)>>
  ELSE IF startsWith(filename, "video_") THEN <<join(VIDEOS_DIR, filename)>>
  ELSE Null

\* A capture operation writes its output file (WriteFile and PhotoExec
\* above), or the operator copies a file into a directory.
StoreArtifact(a) ==
  /\ a.path \notin files
  /\ files' = files \cup {a.path}
  /\ gallery' = Dismiss(gallery)

\* listCaptures(type) is called (line 442-447, 473-475): readdir of the
\* first directory of the type is awaited
ListCaptures(r, type) ==
  /\ NextRequest(r)
  /\ gallery' = [Dismiss(gallery) EXCEPT ![r] =
       [NoRequest EXCEPT !.op = "list", !.type = type,
          !.pc = IF type \in {"all", "photos"} THEN "readPhotos"
                                               ELSE "readVideos"]]
  /\ files' = files

\* readdir answers (line 447-450, 475-478): the entries with the extension
\* of the kind are kept and a stat of each one is awaited
ListReaddir(r) ==
  /\ gallery[r].pc \in {"readPhotos", "readVideos"}
  /\ gallery' = [Dismiss(gallery) EXCEPT ![r] =
       IF @.pc = "readPhotos"
       THEN [@ EXCEPT !.pc = "statPhotos",
               !.names = {f \in readdir(PHOTOS_DIR) : endsWith(f, ".jpg")}]
       ELSE [@ EXCEPT !.pc = "statVideos",
               !.names = {f \in readdir(VIDEOS_DIR) : endsWith(f, ".mp4")}]]
  /\ files' = files

\* the stats of the entries have settled (line 448-467, 476-495); `order`
\* is the order in which readdir gave the entries.  The stats of one
\* directory are started together and are taken as one step.
ListStats(r, order) ==
  /\ gallery[r].pc \in {"statPhotos", "statVideos"}
  /\ order \in Orders(gallery[r].names)
  /\ gallery' = [Dismiss(gallery) EXCEPT ![r] =
       IF @.pc = "statPhotos"
       THEN [@ EXCEPT !.photos = listing(PHOTOS_DIR, order), !.names = {},
               !.pc = IF gallery[r].type = "all" THEN "readVideos" ELSE "done",
               !.result = IF gallery[r].type = "all" THEN "none" ELSE "ok"]
       ELSE [@ EXCEPT !.videos = listing(VIDEOS_DIR, order), !.names = {},
               !.pc = "done", !.result = "ok"]]
  /\ files' = files

\* deleteCapture(filename) is called (line 513-520): getFilePath, then
\* access is awaited
DeleteCapture(r, filename) ==
  /\ NextRequest(r)
  /\ LET filepath == getFilePath(filename) IN
     gallery' = [Dismiss(gallery) EXCEPT ![r] =
       IF filepath = Null
       THEN [NoRequest EXCEPT !.op = "delete", !.pc = "done",
               !.filename = <<filename>>, !.result = "Invalid filename"]
       ELSE [NoRequest EXCEPT !.op = "delete", !.pc = "access",
               !.filename = <<filename>>, !.file = filepath]]
  /\ files' = files

\* access settles (line 519-525)
DeleteAccess(r) ==
  /\ gallery[r].pc = "access"
  /\ gallery' = [Dismiss(gallery) EXCEPT ![r] =
       IF @.file[1] \in files
       THEN [@ EXCEPT !.pc = "unlink"]
       ELSE [@ EXCEPT !.pc = "done", !.result = "File not found"]]
  /\ files' = files

\* unlink settles (line 525-526); the error of an unlink that finds no
\* file is not caught
DeleteUnlink(r) ==
  /\ gallery[r].pc = "unlink"
  /\ gallery' = [Dismiss(gallery) EXCEPT ![r] =
       [@ EXCEPT !.pc = "done",
                 !.result = IF gallery[r].file[1] \in files THEN "ok"
                                                              ELSE "ENOENT"]]
  /\ files' = files \ {gallery[r].file[1]}

GalleryFrame ==
  UNCHANGED <<supVars, recordingProcess, isRecording, currentVideoFile,
              recordingStartTime, cprocs, calls, stamp, status, healthChecks>>

GalleryNext ==
  \/ \E a \in Stored : StoreArtifact(a) /\ GalleryFrame
  \/ \E r \in Requests, type \in Types : ListCaptures(r, type) /\ GalleryFrame
  \/ \E r \in Requests : ListReaddir(r) /\ GalleryFrame
  \/ \E r \in Requests : \E order \in Orders(gallery[r].names) :
       ListStats(r, order) /\ GalleryFrame
  \/ \E r \in Requests, filename \in Filenames :
       DeleteCapture(r, filename) /\ GalleryFrame
  \/ \E r \in Requests : DeleteAccess(r) /\ GalleryFrame
  \/ \E r \in Requests : DeleteUnlink(r) /\ GalleryFrame

GallerySpec == Init /\ [][GalleryNext]_vars

(***************************************************************************)
(* CaptureService: deleteCapture with the names a client can send          *)
(***************************************************************************)
\* The files on the disk in these behaviours: a photo, a file in the
\* captures directory beside the two capture directories, and a file of the
\* application above the captures directory.
Installed ==
  {[path |-> join(PHOTOS_DIR, generateFilename("photo", "jpg", 1)),
    birthtime |-> 30],
   [path |-> join(CAPTURES_DIR, <<Plain("x")>>), birthtime |-> 20],
   [path |-> <<Plain("app"), Plain("package.json")>>, birthtime |-> 10]}

\* The names DELETE /capture/:filename passes on (routes.js line 120-122).
\* The parameter is one segment of the URL, decoded: an encoded '/' in it
\* arrives as '/', so the name can have several segments.  Here: the name
\* of the photo, 'photo_/../../x' and 'video_/../../../package.json'.
ClientFilenames ==
  {generateFilename("photo", "jpg", 1),
   <<Plain("photo_"), Up, Up, Plain("x")>>,
   <<Plain("video_"), Up, Up, Up, Plain("package.json")>>}

ConfinementNext ==
  \/ \E a \in Installed : StoreArtifact(a) /\ GalleryFrame
  \/ \E r \in Requests, filename \in ClientFilenames :
       DeleteCapture(r, filename) /\ GalleryFrame
  \/ \E r \in Requests : DeleteAccess(r) /\ GalleryFrame
  \/ \E r \in Requests : DeleteUnlink(r) /\ GalleryFrame

ConfinementSpec == Init /\ [][ConfinementNext]_vars

(***************************************************************************)
(* Properties of the CaptureService                                        *)
(***************************************************************************)
Alive == {p \in CPids : cprocs[p].status = "running"}
\* call c is made in this step
Called(c, op) == calls[c].op = "none" /\ calls'[c].op = op

\* C2: at most one capture process is alive at any time.
C2_OneCaptureProcess == Cardinality(Alive) <= 1

\* C3: startRecording() called while isRecording is true settles at once
\* with 'Already recording', having made no probe, and changes neither the
\* session fields nor any process.
C3_StartConflict ==
  [][\A c \in Calls :
       (Called(c, "start") /\ isRecording)
       => ( /\ calls'[c].pc = "done"
            /\ calls'[c].result = "Already recording"
            /\ calls'[c].attempt = 0
            /\ UNCHANGED <<recordingProcess, isRecording, currentVideoFile,
                           recordingStartTime, cprocs>> )]_vars

C3_Witness ==
  /\ isRecording
  /\ recordingProcess # Null
  /\ \E c \in Calls : calls[c].op = "start" /\
                        calls[c].result = "Already recording"

\* C4: stopRecording() called while isRecording is false settles at once
\* with 'Not currently recording', arms no timeout, signals no process and
\* changes no session field.
C4_StopConflict ==
  [][\A c \in Calls :
       (Called(c, "stop") /\ ~isRecording)
       => ( /\ calls'[c].pc = "done"
            /\ calls'[c].result = "Not currently recording"
            /\ ~calls'[c].timer
            /\ UNCHANGED <<recordingProcess, isRecording, currentVideoFile,
                           recordingStartTime, cprocs>> )]_vars

C4_Witness ==
  /\ ~isRecording
  /\ currentVideoFile # Null
  /\ \E c \in Calls : calls[c].op = "stop" /\
                        calls[c].result = "Not currently recording"

\* C10 as stated: isRecording holds exactly when file path, start time and
\* process handle are all set, and an idle session has none of the three.
C10_IdleSessionIsEmpty ==
  /\ isRecording <=> ( /\ currentVideoFile # Null
                       /\ recordingStartTime # Null
                       /\ recordingProcess # Null )
  /\ ~isRecording => ( /\ currentVideoFile = Null
                       /\ recordingStartTime = Null
                       /\ recordingProcess = Null )

\* C10 as amended: isRecording holds exactly when file path, start time and
\* process handle are all set; an idle session has no process handle (its
\* file path and start time may be those of the last recording).
C10_SessionInvariant ==
  /\ isRecording <=> ( /\ currentVideoFile # Null
                       /\ recordingStartTime # Null
                       /\ recordingProcess # Null )
  /\ ~isRecording => recordingProcess = Null

C10_Witness ==
  /\ ~isRecording
  /\ recordingProcess = Null
  /\ currentVideoFile # Null
  /\ recordingStartTime # Null
  /\ \E c \in Calls : calls[c].op = "stop" /\ calls[c].pc = "sync"

\* C11: during stopRecording() the session is reset to idle only when the
\* exit of the capture process is handled: while a call still waits for the
\* exit of its process, and that process is running, the session reports
\* isRecording = TRUE and holds a handle.
C11_RecordingUntilExit ==
  \A c \in Calls :
     (calls[c].pc = "waitExit" /\ cprocs[calls[c].proc[1]].status = "running")
     => (isRecording /\ recordingProcess # Null)

\* call c settles in this step
Settles(c) == calls[c].pc # "done" /\ calls'[c].pc = "done"

\* C12: the end-to-end recording sequence, step by step.  (1) A
\* startRecording() whose health probe reported ready and whose disk probe
\* reports at least the threshold succeeds and leaves the session recording
\* on a new process.  (2) A startRecording() made while the session is
\* recording fails with 'Already recording' and leaves it recording.  (3) A
\* stopRecording() made while the session is recording is accepted and
\* waits for the exit of the session's process.  (4) When that process
\* exits the session is idle, and the stat attempt that finds the nonempty
\* file settles the call with success, for the file of the session.  (5)
\* getRecordingStatus() on the idle session reports idle.
C12_EndToEnd ==
  [][\A c \in Calls :
       /\ ( /\ calls[c].pc = "disk"
            /\ Settles(c)
            /\ calls'[c].available[1] >= MIN_DISK_SPACE_MB )
          => ( /\ calls'[c].result = "ok"
               /\ isRecording'
               /\ recordingProcess' = <<Len(cprocs) + 1>>
               /\ Len(cprocs') = Len(cprocs) + 1
               /\ currentVideoFile' = calls'[c].file )
       /\ (Called(c, "start") /\ isRecording)
          => ( /\ calls'[c].result = "Already recording"
               /\ isRecording' /\ recordingProcess' = recordingProcess )
       /\ (Called(c, "stop") /\ isRecording /\ recordingProcess # Null)
          => ( /\ calls'[c].pc = "waitExit"
               /\ calls'[c].proc = recordingProcess
               /\ calls'[c].file = currentVideoFile )
       /\ (calls[c].pc = "waitExit" /\ calls'[c].pc # "waitExit")
          => ( /\ calls'[c].pc = "sync"
               /\ cprocs'[calls[c].proc[1]].status = "exited"
               /\ ~isRecording' /\ recordingProcess' = Null )
       /\ (calls[c].pc = "verify" /\ calls[c].file[1] \in files)
          => ( calls'[c].pc # "verify"
               => ( /\ calls'[c].result = "ok"
                    /\ calls'[c].file = calls[c].file
                    /\ calls'[c].file[1] \in files' ) )
       /\ (status' # Null /\ ~isRecording) => status' = <<Idle>>]_vars

\* the sequence has been run: three calls were made and have settled, the
\* process of the one session has exited and left its nonempty file, and
\* getRecordingStatus() has just reported idle
C12_Witness ==
  /\ status = <<Idle>>
  /\ ~isRecording
  /\ Len(cprocs) = 1
  /\ cprocs[1].status = "exited"
  /\ cprocs[1].file \in files
  /\ currentVideoFile = <<cprocs[1].file>>
  /\ \A c \in Calls : calls[c] = Finished

\* C13: stopRecording() does not wait without bound for a process that has
\* not exited: while a call waits for the exit of a running process, a
\* deadline of the call is still pending (the graceful timeout, or after it
\* the grace period of the forceful termination).
C13_BoundedStop ==
  \A c \in Calls :
     (calls[c].pc = "waitExit" /\ cprocs[calls[c].proc[1]].status = "running")
     => calls[c].timer

\* C16: when the process the session holds exits while isRecording is TRUE
\* and no stopRecording() waits for an exit, the step resets the session to
\* idle and settles no call (no caller gets an error).  On the idle session
\* getRecordingStatus() reports idle, a startRecording() is accepted (it
\* goes on to the health check) and a stopRecording() fails with 'Not
\* currently recording'.
C16_UnexpectedExit ==
  [][/\ \A p \in CPids :
          ( /\ cprocs[p].status = "running"
            /\ cprocs'[p].status = "exited"
            /\ isRecording
            /\ recordingProcess = <<p>>
            /\ \A c \in Calls : calls[c].pc # "waitExit" )
          => ( /\ ~isRecording'
               /\ recordingProcess' = Null
               /\ \A c \in Calls : ~Settles(c) /\ calls'[c].pc = calls[c].pc )
     /\ (status' # Null /\ ~isRecording) => status' = <<Idle>>
     /\ \A c \in Calls :
          /\ (Called(c, "start") /\ ~isRecording)
             => (calls'[c].pc = "health" /\ calls'[c].result = "none")
          /\ (Called(c, "stop") /\ ~isRecording)
             => ( /\ calls'[c].pc = "done"
                  /\ calls'[c].result = "Not currently recording" )]_vars

\* one call has been made, the startRecording() that spawned process 1; the
\* process has exited and getRecordingStatus() has just reported idle
C16_Witness ==
  /\ Len(cprocs) = 1
  /\ cprocs[1].status = "exited"
  /\ cprocs[1].file \in files
  /\ calls[1] = Finished
  /\ calls[2] = NoCall
  /\ ~isRecording
  /\ recordingProcess = Null
  /\ status = <<Idle>>

\* the session fields and the processes are left as they are
SessionUntouched ==
  UNCHANGED <<recordingProcess, isRecording, currentVideoFile,
              recordingStartTime, cprocs>>

\* C17: the preflight of startRecording().  A call that passed the conflict
\* check stands at the health check.  It leaves the health check either for
\* the disk probe or by failing with 'Stream not ready', in which case no
\* disk reading was taken.  It leaves the disk probe by settling: with a
\* reading of at least MIN_DISK_SPACE_MB it succeeds and spawns the
\* process, with less it fails at once with 'Insufficient disk space' and
\* the reading.  A failing call leaves the session fields and the processes
\* as they are, and a process is spawned only by the step of a call that
\* leaves the disk probe with success.
C17_Preflight ==
  [][/\ \A c \in Calls :
          /\ Called(c, "start")
             => \/ calls'[c].pc = "health"
                \/ calls'[c].result = "Already recording"
          /\ (calls[c].op = "start" /\ calls'[c].pc = "disk")
             => calls[c].pc \in {"health", "disk"}
          /\ (calls[c].op = "start" /\ calls[c].pc = "health" /\
                calls'[c].pc # "health")
             => \/ calls'[c].pc = "disk" /\ SessionUntouched
                \/ /\ calls'[c].pc = "done"
                   /\ calls'[c].result = "Stream not ready"
                   /\ calls'[c].available = Null
                   /\ SessionUntouched
          /\ (calls[c].op = "start" /\ calls[c].pc = "disk" /\
                calls'[c].pc # "disk")
             => /\ calls'[c].pc = "done"
                /\ calls'[c].available # Null
                /\ IF calls'[c].available[1] >= MIN_DISK_SPACE_MB
                   THEN /\ calls'[c].result = "ok"
                        /\ Len(cprocs') = Len(cprocs) + 1
                   ELSE /\ calls'[c].result = "Insufficient disk space"
                        /\ SessionUntouched
     /\ Len(cprocs') # Len(cprocs)
        => \E c \in Calls :
              /\ calls[c].op = "start" /\ calls[c].pc = "disk"
              /\ calls'[c].result = "ok"
              /\ calls'[c].available[1] >= MIN_DISK_SPACE_MB
              /\ calls'[c].proc = <<Len(cprocs')>>]_vars

\* a startRecording() has just failed on a reading below the threshold:
\* nothing was spawned and the session is idle
C17_Witness ==
  /\ cprocs = <<>>
  /\ ~isRecording
  /\ recordingProcess = Null
  /\ \E c \in Calls :
        /\ calls[c].op = "start"
        /\ calls[c].result = "Insufficient disk space"
        /\ calls[c].available = <<MIN_DISK_SPACE_MB - 1>>

\* C18: a call of getRecordingStatus() changes no session field, no process,
\* no file and no call in flight (so it arms and cancels no timer); it
\* returns the idle status exactly when isRecording is FALSE, and otherwise
\* the base name of the session's file and the session's start time.
C18_StatusIsPureRead ==
  [][status' # Null
     => /\ UNCHANGED <<recordingProcess, isRecording, currentVideoFile,
                       recordingStartTime, cprocs, files, stamp>>
        /\ \A c \in Calls :
              /\ calls'[c].pc = calls[c].pc
              /\ calls'[c].timer = calls[c].timer
              /\ calls[c].pc # "done" => calls'[c] = calls[c]
        /\ (status' = <<Idle>>) <=> ~isRecording
        /\ isRecording
           => /\ status'[1].isRecording
              /\ status'[1].filename = <<basename(currentVideoFile[1])>>
              /\ status'[1].startTime = recordingStartTime]_vars

\* getRecordingStatus() has just reported a recording in progress while a
\* stopRecording() waits for the exit of the process
C18_Witness ==
  /\ status # Null
  /\ status[1].isRecording
  /\ status[1].filename = <<basename(currentVideoFile[1])>>
  /\ isRecording
  /\ \E c \in Calls : calls[c].pc = "waitExit" /\ calls[c].timer

\* deleteCapture/listCaptures call r is made, leaves pc, settles in this step
Requested(r, op) == gallery[r].op = "none" /\ gallery'[r].op = op
Leaves(r, pc) == gallery[r].pc = pc /\ gallery'[r].pc # pc
Answers(r) == gallery[r].pc # "done" /\ gallery'[r].pc = "done"
\* the naming convention: the name begins with photo_ or video_
Conforming(filename) == filename[1][1] \in {"photo_", "video_"}
\* the directory of a conforming name
DirOf(filename) == IF filename[1][1] = "photo_" THEN PHOTOS_DIR ELSE VIDEOS_DIR

\* C19: deleteCapture(filename).  With a name that does not follow the
\* naming convention the call fails at once with 'Invalid filename' and
\* removes nothing.  With a conforming name it looks for the file of that
\* name in the directory of its kind: when the file does not exist the call
\* fails with 'File not found' and removes nothing; when it exists the call
\* goes on to unlink, which removes exactly that file and succeeds (or, the
\* file having gone in between, fails with ENOENT and removes nothing).  No
\* step of a deleteCapture() removes any other file.
C19_DeleteCapture ==
  [][\A r \in Requests :
       /\ Requested(r, "delete")
          => /\ files' = files
             /\ IF Conforming(gallery'[r].filename[1])
                THEN /\ gallery'[r].pc = "access"
                     /\ gallery'[r].file =
                          <<DirOf(gallery'[r].filename[1])
                              \o gallery'[r].filename[1]>>
                ELSE /\ gallery'[r].pc = "done"
                     /\ gallery'[r].result = "Invalid filename"
       /\ Leaves(r, "access")
          => /\ files' = files
             /\ IF gallery[r].file[1] \in files
                THEN gallery'[r].pc = "unlink"
                ELSE /\ gallery'[r].pc = "done"
                     /\ gallery'[r].result = "File not found"
       /\ Leaves(r, "unlink")
          => /\ gallery'[r].pc = "done"
             /\ IF gallery[r].file[1] \in files
                THEN /\ gallery'[r].result = "ok"
                     /\ files' = files \ {gallery[r].file[1]}
                     /\ files' # files
                ELSE /\ gallery'[r].result = "ENOENT"
                     /\ files' = files
       /\ (gallery[r].pc \in {"access", "unlink"} /\ gallery'[r] # gallery[r])
          => files \ files' \subseteq {gallery[r].file[1]}]_vars

\* a deleteCapture() has just removed its file, and only that one: the
\* other three stored files are on the disk
C19_Witness ==
  \E r \in Requests :
     /\ gallery[r].op = "delete"
     /\ gallery[r].result = "ok"
     /\ gallery[r].file[1] \notin files
     /\ files = {a.path : a \in Stored} \ {gallery[r].file[1]}

\* the names of the stored artifacts of a kind: the files with extension ext
\* that lie in dir
Artifacts(dir, ext) ==
  {<<f[Len(f)]>> : f \in {g \in files : /\ Len(g) = Len(dir) + 1
                                         /\ \A i \in 1..Len(dir) : g[i] = dir[i]
                                         /\ g[Len(g)][3] = ext}}

\* the list L holds, once each, exactly the names of `names` whose file in
\* dir exists, each with the creation time of its file, newest first
ListedNewestFirst(L, dir, names) ==
  /\ {L[i].filename : i \in 1..Len(L)} = {n \in names : dir \o n \in files}
  /\ \A i, j \in 1..Len(L) : L[i].filename = L[j].filename => i = j
  /\ \A i \in 1..Len(L) :
        L[i].created = toISOString(birthtime(dir \o L[i].filename))
  /\ \A i, j \in 1..Len(L) :
        i < j => birthtime(dir \o L[i].filename)
                   >= birthtime(dir \o L[j].filename)

\* C20: listCaptures(type).  For each kind of the type (photos, then
\* videos; both for "all") it reads the directory of the kind, which gives
\* exactly the names of the stored artifacts of the kind, and then stats
\* them: the list of the kind holds exactly the entries whose stat succeeds
\* (whose file still exists), ordered newest-first by creation time; an
\* entry whose stat fails is left out and the call still succeeds.  A kind
\* that was not asked for is not read and its list is empty.  No step of
\* the call changes the files.
C20_ListCaptures ==
  [][\A r \in Requests :
       /\ Requested(r, "list")
          => /\ gallery'[r].pc = IF gallery'[r].type \in {"all", "photos"}
                                 THEN "readPhotos" ELSE "readVideos"
             /\ gallery'[r].photos = <<>> /\ gallery'[r].videos = <<>>
       /\ Leaves(r, "readPhotos")
          => /\ gallery'[r].pc = "statPhotos"
             /\ gallery'[r].names = Artifacts(PHOTOS_DIR, ".jpg")
       /\ Leaves(r, "readVideos")
          => /\ gallery'[r].pc = "statVideos"
             /\ gallery'[r].names = Artifacts(VIDEOS_DIR, ".mp4")
             /\ gallery'[r].photos = gallery[r].photos
       /\ Leaves(r, "statPhotos")
          => /\ ListedNewestFirst(gallery'[r].photos, PHOTOS_DIR,
                                  gallery[r].names)
             /\ gallery'[r].videos = <<>>
             /\ IF gallery[r].type = "all"
                THEN gallery'[r].pc = "readVideos"
                ELSE gallery'[r].pc = "done" /\ gallery'[r].result = "ok"
       /\ Leaves(r, "statVideos")
          => /\ ListedNewestFirst(gallery'[r].videos, VIDEOS_DIR,
                                  gallery[r].names)
             /\ gallery'[r].photos = gallery[r].photos
             /\ gallery'[r].pc = "done" /\ gallery'[r].result = "ok"
       /\ (gallery'[r].op = "list" /\ gallery'[r].type = "videos")
          => gallery'[r].pc \notin {"readPhotos", "statPhotos"}
       /\ (gallery'[r].op = "list" /\ gallery'[r] # gallery[r])
          => files' = files]_vars

\* a listCaptures("all") has just returned both photos, the newer file
\* first although readdir gives it by the later name, and the video; the
\* file that is no photo is on the disk and is not listed
C20_Witness ==
  \E r \in Requests :
     /\ gallery[r].op = "list"
     /\ gallery[r].type = "all"
     /\ gallery[r].result = "ok"
     /\ Len(gallery[r].photos) = 2
     /\ parseDate(gallery[r].photos[1].created)
          > parseDate(gallery[r].photos[2].created)
     /\ Len(gallery[r].videos) = 1
     /\ files = {a.path : a \in Stored}

\* C14: checkStreamHealth() reports not-ready when every probe of its
\* retry budget does, and a capturePhoto() that leaves the health check
\* either goes on to run ffmpeg or fails; when it fails, it fails with
\* 'Stream not ready' after `retries` probes, it has never run ffmpeg (it
\* settles from the health check) and the step writes no file.
C14_PhotoNotReady ==
  [][/\ \A answers \in ProbeAnswers :
          (\A i \in 1..retries : ~answers[i])
          => checkStreamHealth(answers) = [ready |-> FALSE, attempts |-> retries]
     /\ \A c \in Calls :
          /\ (calls[c].op = "photo" /\ calls[c].pc = "health" /\
                calls'[c].pc # "health")
             => \/ calls'[c].pc = "exec" /\ UNCHANGED files
                \/ /\ calls'[c].pc = "done"
                   /\ calls'[c].result = "Stream not ready"
                   /\ calls'[c].attempt = retries
                   /\ UNCHANGED files
          /\ (calls[c].op = "photo" /\ Settles(c) /\
                calls'[c].result = "Stream not ready")
             => calls[c].pc = "health"]_vars

C14_Witness ==
  \E c \in Calls :
     /\ calls[c].op = "photo"
     /\ calls[c].result = "Stream not ready"
     /\ calls[c].attempt = retries
     /\ calls[c].file # Null
     /\ calls[c].file[1] \notin files

(***************************************************************************)
(* Properties of the supervisor                                            *)
(***************************************************************************)
RestartTimers(ts) == {t \in ts : t.kind = "restart"}
HasStabilityTimer(ts, p) == \E t \in ts : t.kind = "stability" /\ t.proc = p
\* process p is reported to have exited in this step
ExitStep(p) == procs[p].status # "exited" /\ procs'[p].status = "exited"

RECURSIVE Pow2(_)
Pow2(n) == IF n = 0 THEN 1 ELSE 2 * Pow2(n - 1)

\* C1: once stopMediaMTX() has been called, no restart is pending and no
\* process is spawned until startMediaMTX() is called explicitly.
C1_StopIsFinal ==
  stopped => (~revived /\ RestartTimers(timers) = {})

\* C5: the permanent-failure event is broadcast at most once; it has been
\* broadcast when count is above maxRestarts; and once it has been broadcast
\* no restart is pending any more.
C5_GiveUpOnce ==
  /\ failures <= 1
  /\ restartState.count > maxRestarts => failures = 1
  /\ failures = 1 => RestartTimers(timers) = {}

C5_Witness ==
  /\ failures = 1
  /\ restartState.count = maxRestarts + 1
  /\ sent = <<StreamStopped(<<1>>), PermanentFailure>>

\* C6: in a run of nonzero exits from a fresh or reset RestartState, the nth
\* scheduled restart (n = 0 first) is armed with min(initialDelay * 2^n,
\* maxDelay), and n stays within maxRestarts.
C6_NthDelay ==
  /\ Len(run) <= maxRestarts
  /\ \A i \in 1..Len(run) :
        run[i] = (IF initialDelay * Pow2(i - 1) <= maxDelay
                  THEN initialDelay * Pow2(i - 1) ELSE maxDelay)

C6_Witness ==
  /\ Len(run) = maxRestarts
  /\ run[Len(run)] = maxDelay
  /\ \E t \in timers : t.kind = "restart" /\ t.at = Now + maxDelay

\* C7: from the initial RestartState the restarts of consecutive nonzero
\* exits are armed with 2000, 4000, 8000, 16000, 32000, 60000 ms, and every
\* later one with 60000 ms.
C7_Delays ==
  \A i \in 1..Len(run) :
     run[i] = (IF i <= 6
               THEN <<2000, 4000, 8000, 16000, 32000, 60000>>[i]
               ELSE 60000)

C7_Witness ==
  /\ Len(run) = 7
  /\ \E t \in timers : t.kind = "restart" /\ t.at = Now + 60000

\* C8: when the stability timer of a process fires while that process is
\* still running and stopMediaMTX() has not been called on it, count becomes
\* 0 and delay becomes initialDelay.
C8_StableReset ==
  [][\A p \in Pids :
       ( /\ HasStabilityTimer(timers, p)
         /\ ~HasStabilityTimer(timers', p)
         /\ procs[p].status = "running"
         /\ ~procs[p].signalled )
       => ( /\ restartState'.count = 0
            /\ restartState'.delay = initialDelay )]_vars

C8_Witness ==
  /\ wasReset # Null
  /\ wasReset[1] > 0
  /\ wasReset[2] > initialDelay
  /\ restartState.count = 0
  /\ restartState.delay = initialDelay
  /\ procs[Len(procs)].status = "running"
  /\ ~procs[Len(procs)].signalled
  /\ ~HasStabilityTimer(timers, Len(procs))

\* C9: the handling of an exit with code 0 leaves count and delay as they
\* were and arms no restart; the handling of any other exit increments count
\* by exactly one and arms exactly one restart unless the cap is exceeded.
C9_ExitHandling ==
  [][\A p \in Pids :
       ExitStep(p) =>
         IF sent'[1] = StreamStopped(<<0>>)
         THEN /\ restartState'.count = restartState.count
              /\ restartState'.delay = restartState.delay
              /\ Cardinality(RestartTimers(timers')) =
                   Cardinality(RestartTimers(timers))
              /\ run' = run
         ELSE /\ restartState'.count = restartState.count + 1
              /\ Cardinality(RestartTimers(timers')) =
                   Cardinality(RestartTimers(timers)) +
                   (IF restartState'.count > maxRestarts THEN 0 ELSE 1)]_vars

C9_Witness ==
  /\ sent = <<StreamStopped(<<0>>)>>
  /\ restartState.count > 0
  /\ RestartTimers(timers) = {}

\* C15: in every reachable state of the supervisor RestartState.delay lies
\* in [initialDelay, maxDelay].
C15_DelayInRange ==
  /\ initialDelay <= restartState.delay
  /\ restartState.delay <= maxDelay

\* the delay has been doubled up to the cap and stays there through the
\* last restarts and a stopMediaMTX()
C15_Witness ==
  /\ restartState.delay = maxDelay
  /\ restartState.count = maxRestarts
  /\ stops = 1

\* the media-server processes that are alive: spawned and not yet exited
Live == {p \in Pids : procs[p].status = "running"}

\* C21: at most one restart timer is pending and at most one media-server
\* process is alive, and no restart timer is pending while a supervised
\* process is still running.
C21_OneTimerOneProcess ==
  /\ Cardinality(RestartTimers(timers)) <= 1
  /\ Cardinality(Live) <= 1
  /\ RestartTimers(timers) # {} => Live = {}

\* a restart is pending after the second process died, while none is alive
C21_Witness ==
  /\ Cardinality(RestartTimers(timers)) = 1
  /\ Len(procs) >= 2
  /\ Live = {}
  /\ restartState.count >= 2

\* the stability timer armed with process p fires in this step
StabilityFires(p) ==
  HasStabilityTimer(timers, p) /\ ~HasStabilityTimer(timers', p)

\* C22: the stability timer armed with a process resets RestartState only
\* if that process is still running (it has not exited, has not failed to
\* spawn, and has not been stopped or superseded); a timer that fires after
\* its process has exited leaves count and delay as they were.
C22_StabilityGuard ==
  [][\A p \in Pids :
       ( /\ StabilityFires(p)
         /\ ~( /\ procs[p].status = "running"
               /\ ~procs[p].signalled
               /\ mediamtxProcess = <<p>> ) )
       => ( /\ wasReset' = Null
            /\ restartState'.count = restartState.count
            /\ restartState'.delay = restartState.delay )]_vars

\* C23: the permanent-failure state is absorbing: once count is above
\* maxRestarts, no timer or callback changes RestartState (count, delay, a
\* reset) or starts a process.
C23_GiveUpIsFinal ==
  [][GiveUp(restartState.count)
       => ( /\ restartState'.count = restartState.count
            /\ restartState'.delay = restartState.delay
            /\ wasReset' = Null
            /\ Len(procs') = Len(procs) )]_vars

\* count and delay are the same before and after the step
SameCountAndDelay ==
  /\ restartState'.count = restartState.count
  /\ restartState'.delay = restartState.delay

\* C24: count changes only by +1 in the handling of a nonzero (or signal)
\* exit; delay changes only by doubling up to maxDelay, in such a step when
\* it arms a restart; both are reset only by a firing stability timer; and
\* startMediaMTX(), stopMediaMTX(), exits with code 0 and spawn errors leave
\* count and delay as they were.
C24_RestartStateFrame ==
  [][/\ \/ SameCountAndDelay
        \/ \E p \in Pids :
             /\ ExitStep(p)
             /\ sent'[1] # StreamStopped(<<0>>)
             /\ restartState'.count = restartState.count + 1
             /\ IF RestartTimers(timers') # {}
                THEN restartState'.delay =
                       (IF restartState.delay * 2 <= maxDelay
                        THEN restartState.delay * 2 ELSE maxDelay)
                ELSE restartState'.delay = restartState.delay
        \/ \E p \in Pids :
             /\ StabilityFires(p)
             /\ wasReset' # Null
             /\ restartState'.count = 0
             /\ restartState'.delay = initialDelay
     /\ ( \/ Len(procs') > Len(procs)
          \/ stops' # stops
          \/ sent' = <<SpawnFailure>>
          \/ sent' = <<StreamStopped(<<0>>)>> ) => SameCountAndDelay]_vars

\* a restart timer has started a process after several failed exits, and
\* count and delay are what those exits left
C24_Witness ==
  /\ restartState.count = 3
  /\ restartState.delay = 16000
  /\ Len(procs) = 4
  /\ procs[4].status = "running"
  /\ RestartTimers(timers) = {}

\* C25: in a run of nonzero exits without a stability reset, the k-th
\* nonzero exit arms a restart and broadcasts no permanent failure for every
\* k <= maxRestarts, and the (maxRestarts+1)-th broadcasts the permanent
\* failure and arms nothing, exactly maxRestarts restarts having been armed.
C25_ExactlyMaxRestarts ==
  [][\A p \in Pids :
       (ExitStep(p) /\ sent'[1] # StreamStopped(<<0>>)) =>
         LET k == restartState.count + 1 IN
         /\ Len(run) = k - 1
         /\ k <= maxRestarts + 1
         /\ k <= maxRestarts =>
              /\ Len(run') = k
              /\ Cardinality(RestartTimers(timers')) =
                   Cardinality(RestartTimers(timers)) + 1
              /\ Count(sent', PermanentFailure) = 0
         /\ k = maxRestarts + 1 =>
              /\ Len(run') = maxRestarts
              /\ RestartTimers(timers') = {}
              /\ Count(sent', PermanentFailure) = 1]_vars

\* the supervisor has given up on the exit of the (maxRestarts+1)-th
\* process, after maxRestarts restarts
C25_Witness ==
  /\ Len(procs) = maxRestarts + 1
  /\ \A p \in Pids : procs[p].status = "exited"
  /\ Len(run) = maxRestarts
  /\ Count(sent, PermanentFailure) = 1
  /\ RestartTimers(timers) = {}

\* a restart is pending that the exit handler of process p armed
RestartArmedBy(ts, p) == \E t \in RestartTimers(ts) : t.proc = p

\* C26: when the binary cannot be spawned, startMediaMTX() still runs to
\* its end (handle stored, stability timer armed, nothing broadcast); the
\* 'error' event that follows broadcasts exactly one streamError and leaves
\* RestartState and the timers as they were; no second streamError is
\* broadcast for that attempt; and a restart is armed for the attempt only
\* by the handling of an exit with a code other than 0.
C26_SpawnFailure ==
  [][\A p \in 1..Len(procs') :
       /\ (p > Len(procs) /\ procs'[p].status = "failing")
          => /\ mediamtxProcess' = <<p>>
             /\ HasStabilityTimer(timers', p)
             /\ sent' = <<>>
             /\ SameCountAndDelay
       /\ (p <= Len(procs) /\ procs[p].status = "failing")
          => \/ procs'[p] = procs[p] /\ Count(sent', SpawnFailure) = 0
             \/ /\ procs'[p].status = "errored"
                /\ sent' = <<SpawnFailure>>
                /\ restartState' = restartState
                /\ timers' = timers
                /\ run' = run
       /\ (p <= Len(procs) /\ procs[p].status = "errored")
          => /\ procs'[p].status \in {"errored", "exited"}
             /\ Count(sent', SpawnFailure) = 0
       /\ (p <= Len(procs) /\ ~RestartArmedBy(timers, p) /\
             RestartArmedBy(timers', p))
          => ExitStep(p) /\ sent'[1] # StreamStopped(<<0>>)]_vars

\* a restarted spawn has failed and its 'error' has been handled: one
\* streamError, no restart pending, count as the exits before left it
C26_Witness ==
  /\ Len(procs) = 3
  /\ procs[3].status = "errored"
  /\ sent = <<SpawnFailure>>
  /\ restartState.count = 2
  /\ RestartTimers(timers) = {}
  /\ HasStabilityTimer(timers, 3)

\* the graceful-stop timeout of a stopRecording() call that waits for
\* process p elapses in this step
TimeoutElapses(p) ==
  \E c \in Calls :
     /\ calls[c].proc = <<p>>
     /\ calls[c].timer
     /\ ~calls'[c].timer
     /\ cprocs'[p].status = cprocs[p].status

\* C27: once stopRecording() has asked the capture process to quit, SIGTERM
\* is sent to it only by a graceful timeout that has elapsed, and once its
\* exit has been handled no graceful timeout of a call that waited for it
\* is armed any more; in every interleaving, a second stopRecording()
\* during the wait of the first included.
C27_GracefulStopRace ==
  [][/\ \A p \in CPids :
          (cprocs[p].quit /\ ~cprocs[p].signalled /\ cprocs'[p].signalled)
          => TimeoutElapses(p)
     /\ \A c \in Calls :
          (calls'[c].timer /\ calls'[c].proc # Null)
          => cprocs'[calls'[c].proc[1]].status # "exited"]_vars

VerificationError == "Video file not found or empty after recording"

\* C28: the verification of stopRecording().  A call enters it only through
\* the handling of the exit it waited for, which leaves the session idle.
\* Every stat attempt is one of at most statAttempts, on the file the
\* session had when the call was made, and changes neither the session nor
\* any file; the attempt that finds the file nonempty settles the call with
\* success for that file; an attempt that does not find it settles the call
\* with the verification error if it was the last and goes on to the next
\* otherwise.  So the verification error is given exactly when statAttempts
\* attempts have all found the file missing or empty, and the file is not
\* removed.
C28_Verification ==
  [][\A c \in Calls :
       /\ (calls[c].pc = "waitExit" /\ calls'[c].pc # "waitExit")
          => /\ calls'[c].pc = "sync"
             /\ calls'[c].attempt = 0
             /\ ~isRecording'
             /\ recordingProcess' = Null
       /\ (calls[c].pc = "verify" /\ calls'[c] # calls[c])
          => /\ calls'[c].attempt = calls[c].attempt + 1
             /\ calls'[c].attempt <= statAttempts
             /\ calls'[c].file = calls[c].file
             /\ SessionUntouched
             /\ UNCHANGED files
             /\ IF calls[c].file[1] \in files
                THEN calls'[c].pc = "done" /\ calls'[c].result = "ok"
                ELSE IF calls'[c].attempt = statAttempts
                THEN /\ calls'[c].pc = "done"
                     /\ calls'[c].result = VerificationError
                ELSE calls'[c].pc = "verify"
       /\ (Settles(c) /\ calls'[c].result = VerificationError)
          => /\ calls[c].pc = "verify"
             /\ calls'[c].attempt = statAttempts
             /\ calls[c].file[1] \notin files]_vars

\* a stopRecording() has failed its verification at the last attempt; the
\* process it stopped has exited without having written its file
C28_Witness ==
  \E c \in Calls :
     /\ calls[c].op = "stop"
     /\ calls[c].result = VerificationError
     /\ calls[c].attempt = statAttempts
     /\ calls[c].file[1] \notin files
     /\ cprocs[1].status = "exited"
     /\ ~isRecording

\* C29: the outcome of a capturePhoto() that passed the health check.  When
\* the ffmpeg command fails or times out, or the stat after it fails, the
\* call goes to the clean-up, which removes the file at the output path if
\* there is one, removes nothing else, and fails the call with 'Photo
\* capture failed': no file is left at that path.  The call fails that way
\* only through the clean-up.  It succeeds only by a stat that finds the
\* file, which stays, and returns its path.
C29_PhotoCleanup ==
  [][\A c \in Calls :
       calls[c].op = "photo" =>
         /\ (calls[c].pc = "exec" /\ calls'[c].pc # "exec")
            => calls'[c].pc \in {"stat", "unlink"}
         /\ (calls[c].pc = "stat" /\ calls'[c].pc # "stat")
            => \/ /\ calls'[c].pc = "done"
                  /\ calls'[c].result = "ok"
                  /\ calls'[c].file = calls[c].file
                  /\ calls[c].file[1] \in files'
                  /\ UNCHANGED files
               \/ /\ calls'[c].pc = "unlink"
                  /\ calls[c].file[1] \notin files
                  /\ UNCHANGED files
         /\ (calls[c].pc = "unlink" /\ calls'[c] # calls[c])
            => /\ calls'[c].pc = "done"
               /\ calls'[c].result = "Photo capture failed"
               /\ files' = files \ {calls[c].file[1]}
         /\ (Settles(c) /\ calls'[c].result = "Photo capture failed")
            => calls[c].pc = "unlink" /\ calls[c].file[1] \notin files'
         /\ (Settles(c) /\ calls'[c].result = "ok")
            => calls[c].pc = "stat"]_vars

\* a capturePhoto() has failed after the health check and its output path
\* is empty, while the photo of another call is on the disk
C29_Witness ==
  \E c \in Calls :
     /\ calls[c].op = "photo"
     /\ calls[c].result = "Photo capture failed"
     /\ calls[c].file[1] \notin files
     /\ files # {}

\* the most steps a call of checkStreamHealth can still take
StepsLeft(check) ==
  CASE check.pc = "idle"  -> 2 * retries + 1
    [] check.pc = "probe" -> 2 * (retries - check.attempt) + 2
    [] check.pc = "wait"  -> 2 * (retries - check.attempt) + 1
    [] check.pc = "done"  -> 0

\* the failed attempts among the first n that are not the last of the budget
FailedBeforeLast(answers) ==
  {i \in 1..Len(answers) : ~answers[i] /\ i < retries}

\* C30: checkStreamHealth makes at most `retries` probes; it returns true
\* at the first probe that finds the path ready and makes no probe after
\* it, and returns false exactly when `retries` probes have all failed; it
\* asks for the delay of delayMs once after every failed probe but the last
\* of the budget; every step it takes brings it nearer to its return, which
\* comes after at most 2 * retries steps; and what it returns is what
\* checkStreamHealth taken as one step returns for the same answers.
C30_HealthCheck ==
  [][\A h \in Checks :
       LET check == healthChecks'[h]
           n == Len(check.answers)
       IN /\ n <= retries
          /\ \A i \in 1..(n - 1) : ~check.answers[i]
          /\ check.result = <<TRUE>>
               <=> (check.pc = "done" /\ n > 0 /\ check.answers[n])
          /\ check.result = <<FALSE>>
               <=> ( /\ check.pc = "done"
                     /\ n = retries
                     /\ \A i \in 1..n : ~check.answers[i] )
          /\ check.pc = "done" => check.result # Null
          /\ check.waited =
               delayMs * Cardinality(FailedBeforeLast(check.answers))
          /\ check.waited <= delayMs * (retries - 1)
          /\ check.pc = "done" =>
               \A a \in ProbeAnswers :
                  (\A i \in 1..n : a[i] = check.answers[i])
                  => checkStreamHealth(a) =
                       [ready |-> check.result[1], attempts |-> n]
          /\ StepsLeft(check) >= 0
          /\ check # healthChecks[h]
               => StepsLeft(check) < StepsLeft(healthChecks[h])]_vars

\* one call has returned false after `retries` failed probes and the
\* delays between them, another has returned true at its second probe after
\* one delay
C30_Witness ==
  \E h, g \in Checks :
     /\ healthChecks[h].result = <<FALSE>>
     /\ Len(healthChecks[h].answers) = retries
     /\ healthChecks[h].waited = delayMs * (retries - 1)
     /\ healthChecks[g].result = <<TRUE>>
     /\ healthChecks[g].answers = <<FALSE, TRUE>>
     /\ healthChecks[g].waited = delayMs

\* the streamStopped events among what the step broadcast
Stopped(out) == {i \in 1..Len(out) : out[i].type = "streamStopped"}

\* C31: the handling of every exit of a media-server process broadcasts
\* exactly one streamStopped event, as the first thing it broadcasts; the
\* permanent-failure streamError of the same exit, if there is one, comes
\* after it; the restart the handler arms is not due before a later step;
\* and no other step broadcasts streamStopped.
C31_StreamStoppedFirst ==
  [][/\ \A p \in Pids :
          ExitStep(p) =>
            /\ Stopped(sent') = {1}
            /\ \A i \in 1..Len(sent') :
                 sent'[i] = PermanentFailure => i > 1
            /\ \A t \in RestartTimers(timers') :
                 t.proc = p => t.at > Now
     /\ Stopped(sent') # {} => \E p \in Pids : ExitStep(p)
     /\ \A p \in Pids : procs[p].status = "exited"
                          => procs'[p].status = "exited"]_vars

\* the exit that exhausted the restarts has broadcast streamStopped and
\* then the permanent failure
C31_Witness ==
  /\ Len(sent) = 2
  /\ sent[1] = StreamStopped(<<1>>)
  /\ sent[2] = PermanentFailure
  /\ procs[Len(procs)].status = "exited"

\* C32: two capture operations of the same type have distinct output
\* files: two capturePhoto() calls in flight never hold the same path, and
\* no two processes spawned by startRecording() write to the same path.
C32_FreshFilenames ==
  /\ \A c, b \in Calls :
       ( /\ c # b
         /\ calls[c].op = "photo" /\ calls[c].pc # "done"
         /\ calls[b].op = "photo" /\ calls[b].pc # "done" )
       => calls[c].file # calls[b].file
  /\ \A p, q \in CPids : p # q => cprocs[p].file # cprocs[q].file

\* process p is reported to have failed or exited in this step
Notifies(p) == cprocs'[p].status # cprocs[p].status

\* C33: whenever a process spawned by startRecording() is alive, the
\* session is recording and recordingProcess is that process; and the
\* 'error' or 'exit' of a process that is not the one the session holds
\* leaves isRecording and recordingProcess as they are.
C33_NoOrphan ==
  [][/\ \A p \in CPids :
          cprocs[p].status = "running"
          => (isRecording /\ recordingProcess = <<p>>)
     /\ \A p \in CPids :
          (Notifies(p) /\ recordingProcess # Null /\ recordingProcess # <<p>>)
          => ( /\ isRecording' = isRecording
               /\ recordingProcess' = recordingProcess )]_vars

\* C34: a stopRecording() call that passed the conflict check is settled by
\* the 'exit' of the process it waits for, so it settles only if that exit
\* comes: every waiting call waits for a process that is alive and has
\* been asked to stop ('q' or SIGTERM), also after an 'error' of the process
\* has reset the session.
C34_StopSettles ==
  \A c \in Calls :
     calls[c].pc = "waitExit" =>
       LET p == calls[c].proc[1] IN
       /\ cprocs[p].status = "running"
       /\ cprocs[p].quit \/ cprocs[p].signalled

\* the disk-space query failed: execAsync rejected, or df printed no figure
QueryFailed(reading) == reading = Null \/ reading = <<NaN>>

\* C35: the disk probe fails closed.  When the disk-space query fails,
\* checkDiskSpace reports available = 0 and sufficient = false; sufficient
\* is true exactly when the figure read is >= MIN_DISK_SPACE_MB; and a
\* startRecording() that leaves the disk probe with an insufficient reading
\* fails with 'Insufficient disk space' and spawns nothing.
C35_DiskFailsClosed ==
  [][\A c \in Calls :
       (calls[c].op = "start" /\ calls[c].pc = "disk" /\ Settles(c)) =>
         /\ \A reading \in DiskReadings :
              calls'[c].available = <<checkDiskSpace(reading).available>>
              => /\ QueryFailed(reading)
                    => ( /\ calls'[c].available = <<0>>
                         /\ ~checkDiskSpace(reading).sufficient )
                 /\ ~QueryFailed(reading)
                    => checkDiskSpace(reading).sufficient
                         = (reading[1] >= MIN_DISK_SPACE_MB)
         /\ calls'[c].available[1] < MIN_DISK_SPACE_MB
            => /\ calls'[c].result = "Insufficient disk space"
               /\ SessionUntouched]_vars

\* C36: capturePhoto() is accepted whether or not a recording is active (it
\* goes on to the health check), and no step of a capturePhoto() call,
\* whether the call succeeds or fails, changes isRecording, the file path,
\* the start time, the process handle or a capture process.
C36_PhotoLeavesSession ==
  [][\A c \in Calls :
       /\ Called(c, "photo")
          => /\ calls'[c].pc = "health"
             /\ SessionUntouched
       /\ (calls[c].op = "photo" /\ calls[c].pc # "done" /\
             calls'[c] # calls[c])
          => SessionUntouched]_vars

\* a capturePhoto() has succeeded while a recording is active
C36_Witness ==
  /\ isRecording
  /\ recordingProcess # Null
  /\ cprocs[recordingProcess[1]].status = "running"
  /\ \E c \in Calls :
        /\ calls[c].op = "photo"
        /\ calls[c].result = "ok"
        /\ calls[c].file[1] \in files

\* filepath lies in directory dir (at any depth)
Within(filepath, dir) ==
  Len(filepath) > Len(dir) /\ SubSeq(filepath, 1, Len(dir)) = dir

\* C37: every name the naming-convention check accepts resolves to a path
\* inside the photos or the videos directory, so every file deleteCapture()
\* removes lies in one of the two, also for a name with parent-directory
\* segments.
C37_PathConfinement ==
  [][/\ \A f \in files \ files' :
          Within(f, PHOTOS_DIR) \/ Within(f, VIDEOS_DIR)
     /\ \A r \in Requests :
          (gallery'[r].op = "delete" /\ gallery'[r].pc = "done" /\
             gallery'[r].result = "ok")
          => ( \/ Within(gallery'[r].file[1], PHOTOS_DIR)
               \/ Within(gallery'[r].file[1], VIDEOS_DIR) )]_vars
====
